---- MODULE Spec2Model ----
(***************************************************************************)
(* AuraLink backend: sensor ingestion (index.js handleSensorData), the     *)
(* enrichment pipeline (index.js processSensorData), the MQTT handler      *)
(* (handlers/mqttHandler.js), the bounded reading store                    *)
(* (utils/dataStore.js) and the start and the shutdown of the process      *)
(* (index.js, utils/configLoader.js).                                      *)
(*                                                                         *)
(* Every await of the code is a suspension point: the synchronous code     *)
(* between two awaits is one action.  An await on a promise that is        *)
(* already settled (publish rejecting because the client is not connected) *)
(* resumes in a microtask, before any I/O event, so it stays in the same   *)
(* action.                                                                 *)
(***************************************************************************)
EXTENDS Integers, Sequences, FiniteSets, Bags, TLC

VARIABLES
    latestSensorData,   \* index.js: let latestSensorData
    readings,           \* dataStore.db.data.readings (in-memory log)
    handlers,           \* one record per invocation of handleSensorData
    now,                \* clock read by new Date(); one tick per dispatched message
    refreshToken,       \* EmailHandler.refreshToken (config.gmail.refreshToken)
    isConnected,        \* MqttHandler.isConnected
    topicHandlers,      \* MqttHandler.topicHandlers
    mqttClient,         \* MqttHandler.mqttClient: "null", "open" or "ended"
    pending,            \* bag of broker-client calls whose callback has not fired yet
    clientCalls,        \* number of calls made on the broker client
    lastResult,         \* the last call, callback or transport event, its outcome, and the calls made
    appended,           \* number of storeSensorReading calls made (store specification)
    db,                 \* the data file, the db.read() of _initialize and the db.write()
                        \* calls in flight
    disconnects,        \* history: the disconnect() calls whose promise has resolved
    connectPromise,     \* the promise connect() returned: "none", "pending", "resolved", "rejected"
    inbound,            \* history: what the message listener did with the last inbound message
    outage,             \* history: "offline" once the transport dropped with handlers registered,
                        \* "back" once it reconnected, "none" again at the next subscribe call
    process             \* the Node process: environment, initialize(), signal handlers, exit code

vars == <<latestSensorData, readings, handlers, now, refreshToken, isConnected,
          topicHandlers, mqttClient, pending, clientCalls, lastResult, appended, db,
          disconnects, connectPromise, inbound, outage, process>>

(***************************************************************************)
(* Bounds of the model.                                                    *)
(***************************************************************************)
MaxMsgs == 2         \* sensor messages dispatched in one behaviour
MaxAppends == 1003   \* storeSensorReading calls in the store specification
MaxApiCalls == 3     \* publish and subscribe calls in the MQTT specification

(***************************************************************************)
(* JavaScript values that flow through the handler.                        *)
(***************************************************************************)
JsNum(n) == [t |-> "number", v |-> n]
JsNull == [t |-> "null", v |-> 0]
JsNaN == [t |-> "NaN", v |-> 0]
JsUndefined == [t |-> "undefined", v |-> 0]

SensorNumbers == {1, 2}

\* config.mqtt.topics, as the segments topic.split('/') yields
TopicTemperature == <<"auralink", "sensors", "temperature">>
TopicHumidity == <<"auralink", "sensors", "humidity">>
SensorTopics == {TopicTemperature, TopicHumidity}

\* handleSensorData is the only handler function index.js registers
HandleSensorData == "handleSensorData"
NoHandler == "none"

(***************************************************************************)
(* Message payloads.  A payload is the text of the MQTT message, described *)
(* by what JSON.parse and parseFloat make of it:                           *)
(*   form "number":  a bare numeric literal such as 22.5                   *)
(*   form "object":  a JSON object; value is its "value" member            *)
(*                   (JsUndefined when the member is absent)               *)
(*   form "text":    text that is not JSON                                 *)
(* type and timestamp are the members of those names of a JSON object:     *)
(* <<>> when the member is absent, <<x>> when it is present with value x.  *)
(* A timestamp before 0 is an instant before the process started.          *)
(***************************************************************************)
NoMember == <<>>
NumberPayload(n) ==
    [form |-> "number", num |-> n, value |-> JsUndefined,
     type |-> NoMember, timestamp |-> NoMember]
ObjectPayloadWith(val, type, timestamp) ==
    [form |-> "object", num |-> 0, value |-> val, type |-> type, timestamp |-> timestamp]
ObjectPayload(val) == ObjectPayloadWith(val, NoMember, NoMember)
TextPayload ==
    [form |-> "text", num |-> 0, value |-> JsUndefined,
     type |-> NoMember, timestamp |-> NoMember]

\* {"value": 1, "type": "pressure"} and {"value": 1, "timestamp": <an earlier instant>}
PayloadWithType == ObjectPayloadWith(JsNum(1), <<"pressure">>, NoMember)
PayloadWithTimestamp == ObjectPayloadWith(JsNum(1), NoMember, <<0 - 1>>)

Payloads ==
    {NumberPayload(n) : n \in SensorNumbers}
        \cup {ObjectPayload(JsNull), TextPayload, PayloadWithType, PayloadWithTimestamp}

\* parseFloat(message): a numeric literal gives its number, "{...}" and other text give NaN
ParseFloat(message) ==
    IF message.form = "number" THEN JsNum(message.num) ELSE JsNaN

\* JSON.parse(message) succeeds on a number literal and on an object
JsonParses(message) == message.form \in {"number", "object"}

\* index.js 187-195: sensorValue
SensorValueOf(message) ==
    IF JsonParses(message)
    THEN IF message.form = "object" /\ message.value # JsUndefined
         THEN message.value
         ELSE ParseFloat(message)
    ELSE ParseFloat(message)

\* index.js 197-198: last segment of the topic
SensorTypeOf(topic) == topic[Len(topic)]

\* the member of a parsed JSON object, or the default when the payload is not an
\* object or has no such member
MemberOr(message, member, default) ==
    IF message.form = "object" /\ message[member] # NoMember
    THEN message[member][1]
    ELSE default

\* index.js 201-206: the reading; ...data is spread last, so the members of a
\* JSON object override value, type and timestamp (a value member equals
\* sensorValue already)
MakeReading(topic, message, clock) ==
    [ value |-> SensorValueOf(message),
      type |-> MemberOr(message, "type", SensorTypeOf(topic)),
      timestamp |-> MemberOr(message, "timestamp", clock) ]

(***************************************************************************)
(* DataStore.storeSensorReading, the synchronous part before db.write():   *)
(* push, then keep the last MaxReadings entries.                           *)
(***************************************************************************)
MaxReadings == 1000

SliceLast(log, n) ==
    IF Len(log) <= n THEN log ELSE SubSeq(log, Len(log) - n + 1, Len(log))

StoreSensorReadingMutant(log, reading) ==
    LET pushed == Append(log, reading)
    IN  IF Len(pushed) > MaxReadings THEN SubSeq(pushed, 1, MaxReadings) ELSE pushed

StoreSensorReading(log, reading) ==
    LET pushed == Append(log, reading)
    IN  IF Len(pushed) > MaxReadings THEN SliceLast(pushed, MaxReadings) ELSE pushed

(***************************************************************************)
(* Collaborators of the pipeline.                                          *)
(***************************************************************************)
\* config.mqtt.topics.quote / email / priority
TopicQuote == <<"auralink", "display", "quote">>
TopicEmail == <<"auralink", "display", "email">>
TopicPriority == <<"auralink", "display", "priority">>

\* llmHandler.js 67: the fallback quote of generateQuote
FallbackQuote == "The present moment is a gift, regardless of the weather outside or in."
\* index.js 297: the generic error string
SystemErrorMessage == "System error: Please check server logs"
\* index.js 253, 266, 282: the email summaries index.js itself assigns
NoEmailData == "No email data available"
NoUnreadEmails == "No unread emails"
EmailProcessingError == "Email processing error"
\* llmHandler.js 112: the fallback summary of summarizeEmails,
\* `${emails.length} new email(s). Unable to summarize.`
UnableToSummarize(count) == ToString(count) \o " new email(s). Unable to summarize."

\* what the completion API can answer ("fail" stands for a rejected request)
Fail == "fail"
\* a quote reply can be blank, and longer than the 120 characters the prompt asks for
BlankReply == "  "
LongQuote == "Within these warm and quiet walls the evening air grows soft and still, and every breath becomes a small and steady promise."
QuoteReplies == {"a generated quote", BlankReply, LongQuote, Fail}
SummaryReplies == {"a generated summary", Fail}
PriorityReplies == {"normal", "warning", "urgent", " Urgent", "maybe", Fail}
\* what the Gmail API can answer: a list of unread messages or a failure
NoEmails == <<>>
FetchFailure == <<Fail>>
FetchReplies == {NoEmails, <<"m1">>, FetchFailure}

\* the refresh tokens a configuration can hold, as sequences of characters
RefreshTokens == {<<>>, <<" ">>, <<"t">>}

RECURSIVE TrimStart(_)
TrimStart(s) == IF s # <<>> /\ Head(s) = " " THEN TrimStart(Tail(s)) ELSE s
RECURSIVE TrimEnd(_)
TrimEnd(s) ==
    IF s # <<>> /\ s[Len(s)] = " " THEN TrimEnd(SubSeq(s, 1, Len(s) - 1)) ELSE s
Trim(s) == TrimEnd(TrimStart(s))

\* EmailHandler.isEmailEnabled: refreshToken && refreshToken.trim() !== ''
IsEmailEnabled(token) == token # <<>> /\ Trim(token) # <<>>

\* llmHandler.js 60: content.trim(), on the replies of QuoteReplies
TrimText(reply) == IF reply = BlankReply THEN "" ELSE reply

\* String.prototype.length of the texts that reach the quote topic
TextLength(text) ==
    CASE text = "" -> 0
      [] text = "a generated quote" -> 17
      [] text = SystemErrorMessage -> 38
      [] text = FallbackQuote -> 70
      [] text = LongQuote -> 124

\* LlmHandler.generateQuote: the trimmed reply, or the fallback quote when the
\* request fails
GenerateQuote(reply) == IF reply = Fail THEN FallbackQuote ELSE TrimText(reply)

\* LlmHandler.summarizeEmails
SummarizeEmails(emails, reply) ==
    IF Len(emails) = 0 THEN "No new emails to summarize."
    ELSE IF reply = Fail THEN UnableToSummarize(Len(emails))
    ELSE reply

\* llmHandler.js 159: content.trim().toLowerCase(), on the replies of PriorityReplies
TrimLowerCase(reply) == IF reply = " Urgent" THEN "urgent" ELSE reply

ValidResponses == {"normal", "warning", "urgent"}

DeterminePriorityMutant(reply) ==
    IF reply = Fail THEN "normal" ELSE TrimLowerCase(reply)

\* LlmHandler.determinePriority: a failure is normal, and so is a reply that,
\* trimmed and lower-cased, is outside the three levels
DeterminePriority(reply) ==
    IF reply = Fail THEN "normal"
    ELSE IF TrimLowerCase(reply) \notin ValidResponses THEN "normal"
    ELSE TrimLowerCase(reply)

\* EmailHandler.fetchUnreadEmails: disabled gives [], every failure is caught and gives []
\* The result says whether the call threw, and the list it returned otherwise.
Returned(emails) == [threw |-> FALSE, emails |-> emails]
Threw == [threw |-> TRUE, emails |-> NoEmails]

FetchUnreadEmailsMutant(token, reply) ==
    IF ~IsEmailEnabled(token) THEN Returned(NoEmails)
    ELSE IF reply = FetchFailure THEN Threw
    ELSE Returned(reply)

FetchUnreadEmails(token, reply) ==
    IF ~IsEmailEnabled(token) THEN Returned(NoEmails)
    ELSE IF reply = FetchFailure THEN Returned(NoEmails)
    ELSE Returned(reply)

(***************************************************************************)
(* MqttHandler.publish and MqttHandler.subscribe reach the broker client   *)
(* only when isConnected is true; otherwise they reject at once.           *)
(***************************************************************************)
PublishGuardMutant(connected) == TRUE
PublishGuard(connected) == connected
SubscribeGuard(connected) == connected

(***************************************************************************)
(* One invocation of handleSensorData.  pc is the await the invocation is  *)
(* suspended at:                                                           *)
(*   write        await dataStore.storeSensorReading(reading)              *)
(*   quote        await llmHandler.generateQuote(...)                      *)
(*   pubQuote     await mqttHandler.publish(topics.quote, quote)           *)
(*   fetch        await emailHandler.fetchUnreadEmails(5)                  *)
(*   summarize    await llmHandler.summarizeEmails(emails)                 *)
(*   priority     await llmHandler.determinePriority(...)                  *)
(*   pubEmail     await mqttHandler.publish(topics.email, emailSummary)    *)
(*   pubPriority  await mqttHandler.publish(topics.priority, priority)     *)
(*   pubErr       await mqttHandler.publish(topics.quote, 'System error..')*)
(* trace and evalAt are history: the collaborator calls and publishes the  *)
(* invocation has made, and latestSensorData as the guard of               *)
(* processSensorData saw it.                                               *)
(***************************************************************************)
HandlerIds == 1..MaxMsgs

NoSnapshot == <<>>
Snapshot(latest) == <<latest.temperature, latest.humidity>>

IdleHandler ==
    [ pc |-> "idle", sensorType |-> "", sensorValue |-> JsUndefined, timestamp |-> 0,
      quote |-> "", emails |-> NoEmails, emailSummary |-> "", priority |-> "",
      evalAt |-> NoSnapshot, trace |-> <<>> ]

CallEv(name, args) ==
    [ev |-> "call", name |-> name, topic |-> <<>>, msg |-> "", res |-> "", args |-> args]
ReturnEv(name, res) ==
    [ev |-> "return", name |-> name, topic |-> <<>>, msg |-> "", res |-> res, args |-> <<>>]
\* what the completion API answered to the request of a collaborator call
ReplyEv(name, reply) ==
    [ev |-> "reply", name |-> name, topic |-> <<>>, msg |-> "", res |-> reply, args |-> <<>>]
PubEv(topic, msg, res) ==
    [ev |-> "publish", name |-> "publish", topic |-> topic, msg |-> msg, res |-> res,
     args |-> <<>>]

Rec(r, e) == [r EXCEPT !.trace = Append(@, e)]

PublishErrorMutant(r, connected) == [r EXCEPT !.pc = "done"]

\* index.js 292-300: the catch of processSensorData publishes the generic error
\* string to the quote topic and swallows a failure of that publish
PublishError(r, connected) ==
    IF PublishGuard(connected)
    THEN [r EXCEPT !.pc = "pubErr"]
    ELSE [Rec(r, PubEv(TopicQuote, SystemErrorMessage, "notconnected")) EXCEPT !.pc = "done"]

\* a publish inside the try of processSensorData: suspended at nextPc while the
\* broker client has the message, or rejected at once and caught at index.js 292
PublishOrCatch(r, topic, msg, nextPc, connected) ==
    IF PublishGuard(connected)
    THEN [r EXCEPT !.pc = nextPc]
    ELSE PublishError(Rec(r, PubEv(topic, msg, "notconnected")), connected)

\* index.js 269-276: determinePriority is called with latestSensorData as it is now
CallDeterminePriority(r, latest) ==
    [Rec(r, CallEv("determinePriority", Snapshot(latest))) EXCEPT !.pc = "priority"]

\* index.js 280-288: the catch of the email block, then the email publish
EmailBlockCatch(r, connected) ==
    LET r1 == [r EXCEPT !.emailSummary = EmailProcessingError]
    IN  PublishOrCatch(r1, TopicEmail, r1.emailSummary, "pubEmail", connected)

\* index.js 251-288, entered once the quote publish has resolved
EmailBlockStart(r, token) ==
    [Rec(Rec(r, CallEv("isEmailEnabled", <<>>)),
         ReturnEv("isEmailEnabled", IF IsEmailEnabled(token) THEN "true" ELSE "false"))
        EXCEPT !.emails = NoEmails, !.emailSummary = NoEmailData, !.priority = "normal"]

EmailBlock(r, token, connected) ==
    LET r1 == EmailBlockStart(r, token)
    IN  IF IsEmailEnabled(token)
        THEN [Rec(r1, CallEv("fetchUnreadEmails", <<>>)) EXCEPT !.pc = "fetch"]
        ELSE PublishOrCatch(r1, TopicEmail, r1.emailSummary, "pubEmail", connected)

\* index.js 234-245: the guard of processSensorData and the call of generateQuote
ProcessSensorDataMutant(r, latest) ==
    LET r1 == [r EXCEPT !.evalAt = Snapshot(latest)]
    IN  IF latest.temperature = JsNull /\ latest.humidity = JsNull
        THEN [r1 EXCEPT !.pc = "done"]
        ELSE [Rec(r1, CallEv("generateQuote", Snapshot(latest))) EXCEPT !.pc = "quote"]

ProcessSensorData(r, latest) ==
    LET r1 == [r EXCEPT !.evalAt = Snapshot(latest)]
    IN  IF latest.temperature = JsNull \/ latest.humidity = JsNull
        THEN [r1 EXCEPT !.pc = "done"]
        ELSE [Rec(r1, CallEv("generateQuote", Snapshot(latest))) EXCEPT !.pc = "quote"]

\* index.js 211-218: the update of latestSensorData
UpdateLatest(latest, r) ==
    IF r.sensorType = "temperature"
    THEN [latest EXCEPT !.temperature = r.sensorValue, !.timestamp = r.timestamp]
    ELSE IF r.sensorType = "humidity"
    THEN [latest EXCEPT !.humidity = r.sensorValue, !.timestamp = r.timestamp]
    ELSE latest

(***************************************************************************)
(* The running system: messages arrive, handlers run interleaved.          *)
(***************************************************************************)
mqttRest == <<topicHandlers, mqttClient, pending, clientCalls, lastResult>>
linkHistory == <<connectPromise, inbound, outage>>
MqttTopics == SensorTopics \cup {TopicQuote}

NoResult == [op |-> "none", outcome |-> "none", n |-> 0]

\* no message has come in yet
NoInbound == [topic |-> <<>>, handler |-> NoHandler, calls |-> 0, threw |-> FALSE]

NullSensorData == [temperature |-> JsNull, humidity |-> JsNull, timestamp |-> 0]

(***************************************************************************)
(* The data file behind the store.  readings is db.data.readings, the log  *)
(* in memory; file is the readings the data file holds; initialRead is the *)
(* db.read() of _initialize: "pending", "read" once the file content has   *)
(* been taken (readData), "done" once it has replaced db.data, "failed"    *)
(* once it was rejected; writes are the db.write() calls in flight, in the *)
(* order of the calls, with the data each took when called; failures       *)
(* counts the writes that were rejected.                                   *)
(***************************************************************************)
NewDb(file) ==
    [file |-> file, initialRead |-> "pending", readData |-> <<>>, writes |-> <<>>,
     failures |-> 0]
\* the store once _initialize() has completed
ReadyDb == [NewDb(<<>>) EXCEPT !.initialRead = "done"]

(***************************************************************************)
(* The Node process.  env is process.env as index.js and configLoader.js   *)
(* read it: the required variables that are set, and NODE_ENV.  initialize *)
(* is the await initialize() is suspended at, shutdowns the number of      *)
(* SIGINT handlers suspended at await mqttHandler.disconnect().            *)
(***************************************************************************)
\* configLoader.js: the variables validateRequiredEnvVars is called with
RequiredVars == {"MQTT_BROKER_URL", "OPENAI_API_KEY", "GMAIL_CLIENT_ID",
                 "GMAIL_CLIENT_SECRET", "GMAIL_REDIRECT_URI"}
NodeEnvs == {"unset", "development", "test", "production"}
Environments == [vars : SUBSET RequiredVars, mode : NodeEnvs]
FullEnvironment == [vars |-> RequiredVars, mode |-> "unset"]

\* initialize is the position of initialize(): "notStarted", "connect",
\* "subscribeTemperature", "subscribeHumidity" (the await it is suspended at),
\* "listening" or "failed"
NewProcess(env) ==
    [env |-> env, exited |-> FALSE, exitCode |-> 0, initialize |-> "notStarted",
     shutdowns |-> 0]
Exit(proc, code) == [proc EXCEPT !.exited = TRUE, !.exitCode = code]
Running == ~process.exited

\* a process whose initialize() has run to its end
ListeningProcess == [NewProcess(FullEnvironment) EXCEPT !.initialize = "listening"]

\* The state once initialize() has connected and subscribed (index.js 307-316):
\* nothing ingested yet, both sensor topics registered.
Init ==
    /\ latestSensorData = NullSensorData
    /\ readings = <<>>
    /\ handlers = [h \in HandlerIds |-> IdleHandler]
    /\ now = 0
    /\ refreshToken \in RefreshTokens
    /\ isConnected = TRUE
    /\ topicHandlers = [t \in MqttTopics |->
                           IF t \in SensorTopics THEN HandleSensorData ELSE NoHandler]
    /\ mqttClient = "open"
    /\ pending = EmptyBag
    /\ clientCalls = 0
    /\ lastResult = NoResult
    /\ appended = 0
    /\ db = ReadyDb
    /\ disconnects = 0
    /\ connectPromise = "resolved"
    /\ inbound = NoInbound
    /\ outage = "none"
    /\ process = ListeningProcess

DispatchMutant(topic, message) ==
    /\ now < MaxMsgs
    /\ mqttClient = "open"
    /\ isConnected
    /\ topic \in DOMAIN topicHandlers
    /\ topicHandlers[topic] = HandleSensorData
    /\ \A other \in HandlerIds : handlers[other].pc \in {"idle", "done"}
    /\ LET h == now + 1
           reading == MakeReading(topic, message, now + 1)
       IN  /\ handlers[h].pc = "idle"
           /\ readings' = StoreSensorReading(readings, reading)
           /\ handlers' = [handlers EXCEPT ![h] =
                  [IdleHandler EXCEPT !.pc = "write",
                                      !.sensorType = SensorTypeOf(topic),
                                      !.sensorValue = SensorValueOf(message),
                                      !.timestamp = reading.timestamp]]
    /\ now' = now + 1
    /\ UNCHANGED <<latestSensorData, refreshToken, isConnected, mqttRest, appended, db,
                   disconnects>>
    /\ UNCHANGED <<linkHistory, process>>

\* part_000 66-78 and index.js 181-209: the message listener finds the handler of
\* the topic and calls it; handleSensorData parses the payload, builds the reading
\* and calls storeSensorReading, which pushes the reading and awaits db.write()
Dispatch(topic, message) ==
    /\ now < MaxMsgs
    /\ mqttClient = "open"
    /\ isConnected
    /\ topic \in DOMAIN topicHandlers
    /\ topicHandlers[topic] = HandleSensorData
    /\ LET h == now + 1
           reading == MakeReading(topic, message, now + 1)
       IN  /\ handlers[h].pc = "idle"
           /\ readings' = StoreSensorReading(readings, reading)
           /\ handlers' = [handlers EXCEPT ![h] =
                  [IdleHandler EXCEPT !.pc = "write",
                                      !.sensorType = SensorTypeOf(topic),
                                      !.sensorValue = SensorValueOf(message),
                                      !.timestamp = reading.timestamp]]
    /\ now' = now + 1
    /\ UNCHANGED <<latestSensorData, refreshToken, isConnected, mqttRest, appended, db,
                   disconnects>>
    /\ UNCHANGED <<linkHistory, process>>

\* index.js 209-229: db.write() settles.  A failure is rethrown by
\* storeSensorReading and caught at index.js 226, which ends the handler; otherwise
\* latestSensorData is updated and processSensorData is called.
HandlerAfterWriteMutant(r, latest, ok) ==
    IF ok THEN ProcessSensorData(r, UpdateLatest(latest, r))
    ELSE [Rec(r, ReturnEv("storeSensorReading", "failed")) EXCEPT !.pc = "rejected"]

HandlerAfterWrite(r, latest, ok) ==
    IF ok THEN ProcessSensorData(r, UpdateLatest(latest, r))
    ELSE [Rec(r, ReturnEv("storeSensorReading", "failed")) EXCEPT !.pc = "done"]

LatestAfterWrite(r, latest, ok) ==
    IF ok THEN UpdateLatest(latest, r) ELSE latest

WriteDone(h, ok) ==
    /\ handlers[h].pc = "write"
    /\ latestSensorData' = LatestAfterWrite(handlers[h], latestSensorData, ok)
    /\ handlers' = [handlers EXCEPT ![h] = HandlerAfterWrite(@, latestSensorData, ok)]
    /\ UNCHANGED <<readings, now, refreshToken, isConnected, mqttRest, appended, db,
                   disconnects>>
    /\ UNCHANGED <<linkHistory, process>>

runFrame == <<latestSensorData, readings, now, refreshToken, isConnected, mqttRest, appended, db, disconnects,
              linkHistory, process>>

\* index.js 242-248: generateQuote settles, the quote is published
AfterQuoteMutant(r, reply, token, connected) ==
    EmailBlock([r EXCEPT !.quote = GenerateQuote(reply)], token, connected)

AfterQuote(r, reply, token, connected) ==
    LET r1 == [r EXCEPT !.quote = GenerateQuote(reply)]
    IN  PublishOrCatch(r1, TopicQuote, r1.quote, "pubQuote", connected)

QuoteDone(h, reply) ==
    /\ handlers[h].pc = "quote"
    /\ handlers' = [handlers EXCEPT ![h] = AfterQuote(@, reply, refreshToken, isConnected)]
    /\ UNCHANGED runFrame

\* index.js 248-260: the quote publish settles; on success the email block starts
AfterQuotePublish(r, err, token, connected) ==
    IF err
    THEN PublishError(Rec(r, PubEv(TopicQuote, r.quote, "error")), connected)
    ELSE EmailBlock(Rec(r, PubEv(TopicQuote, r.quote, "ok")), token, connected)

QuotePublished(h, err) ==
    /\ handlers[h].pc = "pubQuote"
    /\ handlers' = [handlers EXCEPT ![h] =
                       AfterQuotePublish(@, err, refreshToken, isConnected)]
    /\ UNCHANGED runFrame

AfterFetchMutant(r, result, latest, connected) ==
    IF result.threw
    THEN EmailBlockCatch(r, connected)
    ELSE LET r1 == [r EXCEPT !.emails = result.emails]
         IN  IF Len(r1.emails) > 0
             THEN [Rec(r1, CallEv("summarizeEmails", <<>>)) EXCEPT !.pc = "summarize"]
             ELSE PublishOrCatch([r1 EXCEPT !.emailSummary = NoUnreadEmails],
                                 TopicEmail, NoUnreadEmails, "pubEmail", connected)

\* index.js 260-276: fetchUnreadEmails settles
AfterFetch(r, result, latest, connected) ==
    IF result.threw
    THEN EmailBlockCatch(r, connected)
    ELSE LET r1 == [r EXCEPT !.emails = result.emails]
         IN  IF Len(r1.emails) > 0
             THEN [Rec(r1, CallEv("summarizeEmails", <<>>)) EXCEPT !.pc = "summarize"]
             ELSE CallDeterminePriority([r1 EXCEPT !.emailSummary = NoUnreadEmails], latest)

FetchDone(h, reply) ==
    /\ handlers[h].pc = "fetch"
    /\ LET r1 == Rec(handlers[h], ReturnEv("fetchUnreadEmails",
                        IF reply = FetchFailure THEN "failed" ELSE "fetched"))
       IN  handlers' = [handlers EXCEPT ![h] =
               AfterFetch(r1, FetchUnreadEmails(refreshToken, reply),
                          latestSensorData, isConnected)]
    /\ UNCHANGED runFrame

\* index.js 264-276: summarizeEmails settles, determinePriority is called
SummarizeDone(h, reply) ==
    /\ handlers[h].pc = "summarize"
    /\ LET r1 == [handlers[h] EXCEPT
                     !.emailSummary = SummarizeEmails(handlers[h].emails, reply)]
       IN  handlers' = [handlers EXCEPT ![h] = CallDeterminePriority(r1, latestSensorData)]
    /\ UNCHANGED runFrame

\* index.js 270-287: determinePriority settles, the email summary is published
PriorityDone(h, reply) ==
    /\ handlers[h].pc = "priority"
    /\ LET r1 == [Rec(handlers[h], ReplyEv("determinePriority", reply))
                     EXCEPT !.priority = DeterminePriority(reply)]
       IN  handlers' = [handlers EXCEPT ![h] =
               PublishOrCatch(r1, TopicEmail, r1.emailSummary, "pubEmail", isConnected)]
    /\ UNCHANGED runFrame

\* index.js 287-288: the email publish settles, the priority is published
AfterEmailPublishEager(r, err, connected) ==
    PublishOrCatch(Rec(r, PubEv(TopicEmail, r.emailSummary, IF err THEN "error" ELSE "ok")),
                   TopicPriority, r.priority, "pubPriority", connected)

AfterEmailPublish(r, err, connected) ==
    IF err
    THEN PublishError(Rec(r, PubEv(TopicEmail, r.emailSummary, "error")), connected)
    ELSE PublishOrCatch(Rec(r, PubEv(TopicEmail, r.emailSummary, "ok")),
                        TopicPriority, r.priority, "pubPriority", connected)

EmailPublished(h, err) ==
    /\ handlers[h].pc = "pubEmail"
    /\ handlers' = [handlers EXCEPT ![h] = AfterEmailPublish(@, err, isConnected)]
    /\ UNCHANGED runFrame

\* index.js 288-290: the priority publish settles
AfterPriorityPublish(r, err, connected) ==
    IF err
    THEN PublishError(Rec(r, PubEv(TopicPriority, r.priority, "error")), connected)
    ELSE [Rec(r, PubEv(TopicPriority, r.priority, "ok")) EXCEPT !.pc = "done"]

PriorityPublished(h, err) ==
    /\ handlers[h].pc = "pubPriority"
    /\ handlers' = [handlers EXCEPT ![h] = AfterPriorityPublish(@, err, isConnected)]
    /\ UNCHANGED runFrame

\* index.js 296-300: the publish of the generic error string settles
ErrorPublished(h, err) ==
    /\ handlers[h].pc = "pubErr"
    /\ handlers' = [handlers EXCEPT ![h] =
           [Rec(@, PubEv(TopicQuote, SystemErrorMessage, IF err THEN "error" ELSE "ok"))
               EXCEPT !.pc = "done"]]
    /\ UNCHANGED runFrame

\* the transport events leave the application and the broker calls alone
eventFrame == <<latestSensorData, readings, handlers, now, refreshToken, appended, db, disconnects,
                topicHandlers, mqttClient, pending, clientCalls, inbound, process>>

Event(name) == [op |-> "event", outcome |-> name, n |-> lastResult.n]
SomeHandlerRegistered == \E t \in DOMAIN topicHandlers : topicHandlers[t] # NoHandler

\* part_000 57-60: the transport reports offline
EvOffline ==
    /\ mqttClient = "open"
    /\ isConnected' = FALSE
    /\ outage' = IF SomeHandlerRegistered THEN "offline" ELSE outage
    /\ lastResult' = Event("offline")
    /\ UNCHANGED connectPromise
    /\ UNCHANGED eventFrame

EvConnectMutant ==
    /\ mqttClient = "open"
    /\ isConnected' = TRUE
    /\ connectPromise' = IF connectPromise = "pending" THEN "resolved" ELSE connectPromise
    /\ outage' = IF outage = "offline" THEN "back" ELSE outage
    /\ lastResult' = Event("connect")
    /\ topicHandlers' = [t \in DOMAIN topicHandlers |-> NoHandler]
    /\ UNCHANGED <<latestSensorData, readings, handlers, now, refreshToken, appended, db, disconnects,
                   mqttClient, pending, clientCalls, inbound, process>>

\* part_000 46-50: the transport reports connect: the first connection, which
\* resolves the promise of connect(), or a reconnection, where resolve() has no
\* effect on the settled promise
EvConnect ==
    /\ mqttClient = "open"
    /\ isConnected' = TRUE
    /\ connectPromise' = IF connectPromise = "pending" THEN "resolved" ELSE connectPromise
    /\ outage' = IF outage = "offline" THEN "back" ELSE outage
    /\ lastResult' = Event("connect")
    /\ UNCHANGED eventFrame

EvReconnectMutant ==
    /\ mqttClient = "open"
    /\ lastResult' = Event("reconnect")
    /\ isConnected' = FALSE
    /\ UNCHANGED <<connectPromise, outage>>
    /\ UNCHANGED eventFrame

\* part_000 62-64: the transport reports a reconnection attempt; it is logged
EvReconnect ==
    /\ mqttClient = "open"
    /\ lastResult' = Event("reconnect")
    /\ UNCHANGED <<isConnected, connectPromise, outage>>
    /\ UNCHANGED eventFrame

EvErrorMutant ==
    /\ mqttClient = "open"
    /\ connectPromise' = IF connectPromise = "pending" THEN "rejected" ELSE connectPromise
    /\ lastResult' = Event("error")
    /\ isConnected' = FALSE
    /\ UNCHANGED outage
    /\ UNCHANGED eventFrame

\* part_000 52-55: the transport reports an error; reject() settles the promise
\* of connect() when it is still pending and has no effect afterwards
EvError ==
    /\ mqttClient = "open"
    /\ connectPromise' = IF connectPromise = "pending" THEN "rejected" ELSE connectPromise
    /\ lastResult' = Event("error")
    /\ UNCHANGED <<isConnected, outage>>
    /\ UNCHANGED eventFrame

Next ==
    \/ \E topic \in SensorTopics, message \in Payloads : Dispatch(topic, message)
    \/ \E h \in HandlerIds, ok \in BOOLEAN : WriteDone(h, ok)
    \/ \E h \in HandlerIds, reply \in QuoteReplies : QuoteDone(h, reply)
    \/ \E h \in HandlerIds, err \in BOOLEAN : QuotePublished(h, err)
    \/ \E h \in HandlerIds, reply \in FetchReplies : FetchDone(h, reply)
    \/ \E h \in HandlerIds, reply \in SummaryReplies : SummarizeDone(h, reply)
    \/ \E h \in HandlerIds, reply \in PriorityReplies : PriorityDone(h, reply)
    \/ \E h \in HandlerIds, err \in BOOLEAN : EmailPublished(h, err)
    \/ \E h \in HandlerIds, err \in BOOLEAN : PriorityPublished(h, err)
    \/ \E h \in HandlerIds, err \in BOOLEAN : ErrorPublished(h, err)
    \/ EvOffline
    \/ EvConnect

Spec == Init /\ [][Next]_vars

(***************************************************************************)
(* Overlapping runs.  The system some time after start: a temperature of 1 *)
(* and a humidity of 2 have been ingested and their handlers have ended,   *)
(* the mailbox is enabled and the broker connection stays up.  From here   *)
(* every ingested message finds both values present, so two messages give  *)
(* two runs.  handlers holds the invocations made from now on, and the     *)
(* clock counts from now on.  The collaborators answer from smaller sets   *)
(* than in Spec.                                                           *)
(***************************************************************************)
EarlierReadings ==
    << [value |-> JsNum(1), type |-> "temperature", timestamp |-> 0 - 1],
       [value |-> JsNum(2), type |-> "humidity", timestamp |-> 0] >>

RunsInit ==
    /\ latestSensorData = [temperature |-> JsNum(1), humidity |-> JsNum(2), timestamp |-> 0]
    /\ readings = EarlierReadings
    /\ handlers = [h \in HandlerIds |-> IdleHandler]
    /\ now = 0
    /\ refreshToken = <<"t">>
    /\ isConnected = TRUE
    /\ topicHandlers = [t \in MqttTopics |->
                           IF t \in SensorTopics THEN HandleSensorData ELSE NoHandler]
    /\ mqttClient = "open"
    /\ pending = EmptyBag
    /\ clientCalls = 0
    /\ lastResult = NoResult
    /\ appended = 0
    /\ db = ReadyDb
    /\ disconnects = 0
    /\ connectPromise = "resolved"
    /\ inbound = NoInbound
    /\ outage = "none"
    /\ process = ListeningProcess

RunsPayloads == {NumberPayload(1), NumberPayload(2), ObjectPayload(JsNull)}
RunsQuoteReplies == {"a generated quote"}
RunsFetchReplies == {NoEmails, <<"m1">>}
RunsSummaryReplies == {"a generated summary"}
RunsPriorityReplies == {"normal", "urgent"}

RunsNext ==
    \/ \E topic \in SensorTopics, message \in RunsPayloads : Dispatch(topic, message)
    \/ \E h \in HandlerIds, ok \in BOOLEAN : WriteDone(h, ok)
    \/ \E h \in HandlerIds, reply \in RunsQuoteReplies : QuoteDone(h, reply)
    \/ \E h \in HandlerIds : QuotePublished(h, FALSE)
    \/ \E h \in HandlerIds, reply \in RunsFetchReplies : FetchDone(h, reply)
    \/ \E h \in HandlerIds, reply \in RunsSummaryReplies : SummarizeDone(h, reply)
    \/ \E h \in HandlerIds, reply \in RunsPriorityReplies : PriorityDone(h, reply)
    \/ \E h \in HandlerIds : EmailPublished(h, FALSE)
    \/ \E h \in HandlerIds : PriorityPublished(h, FALSE)

SpecRuns == RunsInit /\ [][RunsNext]_vars

(***************************************************************************)
(* The reading store.  storeSensorReading (part_001 70-98) pushes the      *)
(* reading, cuts the log to its last 1000 entries and awaits db.write():   *)
(* it returns to the event loop there, so other calls run while the call   *)
(* is pending and the push is visible to them.  db.write() takes the text  *)
(* of db.data when it is called; the writes reach the file in the order of *)
(* the calls.  When the write settles the call returns, or rethrows.  The  *)
(* n-th reading carries n as its timestamp.                                *)
(***************************************************************************)
MaxInFlight == 2         \* storeSensorReading calls pending at one time
MaxWriteFailures == 1    \* db.write() calls that are rejected in one behaviour

NthReading(n) ==
    [ value |-> JsNum(1 + (n % 2)),
      type |-> IF n % 2 = 1 THEN "temperature" ELSE "humidity",
      timestamp |-> n ]

storeFrame == <<latestSensorData, handlers, now, refreshToken, isConnected, topicHandlers,
                mqttClient, pending, clientCalls, disconnects, linkHistory>>

\* part_001 70-91: storeSensorReading up to its await of db.write()
StoreCall(maxCalls) ==
    /\ Running
    /\ appended < maxCalls
    /\ Len(db.writes) < MaxInFlight
    /\ LET reading == NthReading(appended + 1)
           log == StoreSensorReading(readings, reading)
       IN  /\ readings' = log
           /\ db' = [db EXCEPT !.writes = Append(@, [reading |-> reading, data |-> log])]
    /\ appended' = appended + 1
    /\ lastResult' = [op |-> "storeSensorReading", outcome |-> "pending", n |-> appended + 1]
    /\ UNCHANGED process
    /\ UNCHANGED storeFrame

\* part_001 91-97: db.write() settles; storeSensorReading returns, or rethrows
WriteSettles(ok) ==
    /\ Running
    /\ db.writes # <<>>
    /\ ok \/ db.failures < MaxWriteFailures
    /\ LET write == Head(db.writes)
       IN  /\ db' = [db EXCEPT !.writes = Tail(@),
                               !.file = IF ok THEN write.data ELSE @,
                               !.failures = IF ok THEN @ ELSE @ + 1]
           /\ lastResult' = [op |-> "storeSensorReading",
                             outcome |-> IF ok THEN "resolved" ELSE "rejected: write failed",
                             n |-> write.reading.timestamp]
    /\ UNCHANGED <<readings, appended, process>>
    /\ UNCHANGED storeFrame

(***************************************************************************)
(* The store on its own, some time after _initialize() has completed:      *)
(* EarlierAppends calls of storeSensorReading have been made and have      *)
(* returned, so the log and the file hold their readings, fifteen short of *)
(* the cap.  The calls that follow take the log over the cap.              *)
(***************************************************************************)
EarlierAppends == 985

StoreInit ==
    /\ readings = [n \in 1..EarlierAppends |-> NthReading(n)]
    /\ appended = EarlierAppends
    /\ db = [ReadyDb EXCEPT !.file = [n \in 1..EarlierAppends |-> NthReading(n)]]
    /\ disconnects = 0
    /\ lastResult = [op |-> "storeSensorReading", outcome |-> "resolved",
                     n |-> EarlierAppends]
    /\ latestSensorData = NullSensorData
    /\ handlers = [h \in HandlerIds |-> IdleHandler]
    /\ now = 0
    /\ refreshToken = <<>>
    /\ isConnected = FALSE
    /\ topicHandlers = [t \in MqttTopics |-> NoHandler]
    /\ mqttClient = "null"
    /\ pending = EmptyBag
    /\ clientCalls = 0
    /\ connectPromise = "none"
    /\ inbound = NoInbound
    /\ outage = "none"
    /\ process = NewProcess(FullEnvironment)

StoreNext ==
    \/ StoreCall(MaxAppends)
    \/ \E ok \in BOOLEAN : WriteSettles(ok)

SpecStore == StoreInit /\ [][StoreNext]_vars

(***************************************************************************)
(* The store from the construction of the DataStore (part_001 172).  The   *)
(* constructor calls _initialize() and does not await it: _initialize runs *)
(* up to its await of db.read() at once, so db exists, with the default    *)
(* data, when the constructor returns, and the guard of storeSensorReading *)
(* (part_001 72-74) never waits for the read.  db.read() takes the content *)
(* of the file at some moment and replaces db.data with it when its        *)
(* promise settles.  When db.read() is rejected, _initialize logs and      *)
(* rethrows (part_001 61-63); nothing awaits or catches the promise of     *)
(* _initialize, and index.js registers no handler for unhandled            *)
(* rejections, so Node ends the process with exit code 1.                  *)
(***************************************************************************)
MaxStartupAppends == 3   \* storeSensorReading calls in the start-up specification

\* a reading the data file holds from an earlier run of the process
SavedReading == NthReading(0)

\* part_001 22-26 and 32-55: the constructor has returned; the file exists, empty
\* of readings when it was created just now
StartupInit ==
    /\ readings = <<>>
    /\ appended = 0
    /\ db \in {NewDb(file) : file \in {<<>>, <<SavedReading>>}}
    /\ disconnects = 0
    /\ lastResult = NoResult
    /\ latestSensorData = NullSensorData
    /\ handlers = [h \in HandlerIds |-> IdleHandler]
    /\ now = 0
    /\ refreshToken = <<>>
    /\ isConnected = FALSE
    /\ topicHandlers = [t \in MqttTopics |-> NoHandler]
    /\ mqttClient = "null"
    /\ pending = EmptyBag
    /\ clientCalls = 0
    /\ connectPromise = "none"
    /\ inbound = NoInbound
    /\ outage = "none"
    /\ process = NewProcess(FullEnvironment)

\* part_001 58: db.read() takes the content of the file
InitialReadTakesFile ==
    /\ Running
    /\ db.initialRead = "pending"
    /\ db' = [db EXCEPT !.initialRead = "read", !.readData = db.file]
    /\ UNCHANGED <<readings, appended, lastResult, process>>
    /\ UNCHANGED storeFrame

\* part_001 58-63: the promise of db.read() settles.  Resolved: db.data is what the
\* file held.  Rejected (the file could not be read): db.data stays the default
\* data and the rejection of _initialize(), which nothing handles, ends the process
InitialReadSettles(ok) ==
    /\ Running
    /\ IF ok
       THEN /\ db.initialRead = "read"
            /\ readings' = db.readData
            /\ db' = [db EXCEPT !.initialRead = "done"]
            /\ UNCHANGED process
       ELSE /\ db.initialRead = "pending"
            /\ db' = [db EXCEPT !.initialRead = "failed"]
            /\ process' = Exit(process, 1)
            /\ UNCHANGED readings
    /\ lastResult' = [op |-> "_initialize",
                      outcome |-> IF ok THEN "resolved" ELSE "rejected: read failed",
                      n |-> lastResult.n]
    /\ UNCHANGED appended
    /\ UNCHANGED storeFrame

StartupNext ==
    \/ InitialReadTakesFile
    \/ \E ok \in BOOLEAN : InitialReadSettles(ok)
    \/ StoreCall(MaxStartupAppends)
    \/ \E ok \in BOOLEAN : WriteSettles(ok)

SpecStartup == StartupInit /\ [][StartupNext]_vars

(***************************************************************************)
(* The queries of the DataStore.  A timestamp is text: storeSensorReading  *)
(* keeps the timestamp a reading arrives with (part_001 77-79) and assigns *)
(* new Date().toISOString() only when there is none, so the log can hold   *)
(* ISO-8601 text in the toISOString form, "2026-10-31T10:00:01.000Z", and  *)
(* in other forms, "2026-10-31T10:00:01Z".  All instants of the model lie  *)
(* in one ten-second window: the texts share their first 18 characters,    *)
(* which decide no comparison, and are given here from the 19th character  *)
(* on, as sequences of UTF-16 code units.                                  *)
(***************************************************************************)
MaxLogLen == 3       \* readings in the log of the query specification
Seconds == {0, 1, 2} \* the seconds of the window the instants fall in

CharDot == 46
CharZero == 48
CharZ == 90

\* Date values: an instant of the window, or an Invalid Date
Instant(sec, ms) == [valid |-> TRUE, sec |-> sec, ms |-> ms]
InvalidDate == [valid |-> FALSE, sec |-> 0, ms |-> 0]
ValidInstants == {Instant(sec, 0) : sec \in Seconds} \cup {Instant(1, 500)}
Dates == ValidInstants \cup {InvalidDate}

\* Date.prototype.toISOString: always with milliseconds ("1.500Z")
ToISOString(d) ==
    <<CharZero + d.sec, CharDot, CharZero + (d.ms \div 100), CharZero, CharZero, CharZ>>
\* the same instant written without milliseconds ("1Z"), as a sender may write it
WithoutMillis(d) == <<CharZero + d.sec, CharZ>>

\* the instant a timestamp text denotes, in milliseconds
MillisOfDate(d) == d.sec * 1000 + d.ms
MillisOfText(text) ==
    IF Len(text) = 2 THEN (text[1] - CharZero) * 1000
    ELSE (text[1] - CharZero) * 1000 + (text[3] - CharZero) * 100

\* a <= b on JavaScript strings: code unit by code unit, a prefix comes first
RECURSIVE StringLeq(_, _)
StringLeq(a, b) ==
    IF a = <<>> THEN TRUE
    ELSE IF b = <<>> THEN FALSE
    ELSE IF Head(a) < Head(b) THEN TRUE
    ELSE IF Head(a) > Head(b) THEN FALSE
    ELSE StringLeq(Tail(a), Tail(b))

\* Array.prototype.slice(start): a negative start counts from the end, and -0 is 0
JsSlice(log, start) ==
    LET len == Len(log)
        from == IF start < 0
                THEN (IF len + start < 0 THEN 0 ELSE len + start)
                ELSE (IF start > len THEN len ELSE start)
    IN  SubSeq(log, from + 1, len)

\* part_001 105-117: readings.slice(-count)
GetLatestReadings(log, count) == JsSlice(log, 0 - count)

RECURSIVE FirstOfType(_, _, _)
FirstOfType(log, i, sensorType) ==
    IF i > Len(log) THEN JsNull
    ELSE IF log[i].type = sensorType THEN log[i]
    ELSE FirstOfType(log, i + 1, sensorType)

GetLatestReadingByTypeMutant(log, sensorType) == FirstOfType(log, 1, sensorType)

\* part_001 133-140: the loop from the last index down to 0
RECURSIVE LastOfType(_, _, _)
LastOfType(log, i, sensorType) ==
    IF i < 1 THEN JsNull
    ELSE IF log[i].type = sensorType THEN log[i]
    ELSE LastOfType(log, i - 1, sensorType)

\* part_001 124-144
GetLatestReadingByType(log, sensorType) == LastOfType(log, Len(log), sensorType)

\* part_001 161-163: the filter on the timestamp text
InRange(reading, startISO, endISO) ==
    StringLeq(startISO, reading.timestamp) /\ StringLeq(reading.timestamp, endISO)

\* part_001 152-168: toISOString throws a RangeError on an Invalid Date, which the
\* method logs and rethrows
GetReadingsInTimeRange(log, startTime, endTime) ==
    IF ~startTime.valid \/ ~endTime.valid
    THEN [threw |-> TRUE, value |-> <<>>]
    ELSE [threw |-> FALSE,
          value |-> SelectSeq(log, LAMBDA reading :
                        InRange(reading, ToISOString(startTime), ToISOString(endTime)))]

(***************************************************************************)
(* The queries on their own: any log of up to MaxLogLen readings, then     *)
(* any sequence of queries.  The reading at position i has value i, so     *)
(* every reading of a log is told from the others.                         *)
(***************************************************************************)
SensorTypes == {"temperature", "humidity"}
QueriedTypes == SensorTypes \cup {"pressure"}
LogTimestamps ==
    {ToISOString(Instant(sec, 0)) : sec \in Seconds} \cup {WithoutMillis(Instant(1, 0))}
Counts == 0..(MaxLogLen + 1)

Logs ==
    UNION {
        {[i \in 1..n |-> [value |-> JsNum(i), type |-> f[i][1], timestamp |-> f[i][2]]] :
            f \in [1..n -> SensorTypes \X LogTimestamps]} : n \in 0..MaxLogLen}

QueryInit ==
    /\ readings \in Logs
    /\ appended = 0
    /\ db = ReadyDb
    /\ disconnects = 0
    /\ lastResult = NoResult
    /\ latestSensorData = NullSensorData
    /\ handlers = [h \in HandlerIds |-> IdleHandler]
    /\ now = 0
    /\ refreshToken = <<>>
    /\ isConnected = FALSE
    /\ topicHandlers = [t \in MqttTopics |-> NoHandler]
    /\ mqttClient = "null"
    /\ pending = EmptyBag
    /\ clientCalls = 0
    /\ connectPromise = "none"
    /\ inbound = NoInbound
    /\ outage = "none"
    /\ process = NewProcess(FullEnvironment)

queryFrame == <<latestSensorData, handlers, now, refreshToken, isConnected, topicHandlers,
                mqttClient, pending, clientCalls, appended, db, disconnects, linkHistory,
                process>>

QueryResult(op, args, outcome, value) ==
    [op |-> op, outcome |-> outcome, n |-> 0, args |-> args, value |-> value]

\* part_001 105-117
QueryLatest(count) ==
    /\ lastResult' = QueryResult("getLatestReadings", <<count>>, "resolved",
                                 GetLatestReadings(readings, count))
    /\ UNCHANGED readings
    /\ UNCHANGED queryFrame

\* part_001 124-144
QueryLatestByType(sensorType) ==
    /\ lastResult' = QueryResult("getLatestReadingByType", <<sensorType>>, "resolved",
                                 GetLatestReadingByType(readings, sensorType))
    /\ UNCHANGED readings
    /\ UNCHANGED queryFrame

\* part_001 152-168
QueryInTimeRange(startTime, endTime) ==
    /\ LET result == GetReadingsInTimeRange(readings, startTime, endTime)
       IN  lastResult' = QueryResult("getReadingsInTimeRange", <<startTime, endTime>>,
                                     IF result.threw THEN "rejected: RangeError"
                                     ELSE "resolved",
                                     result.value)
    /\ UNCHANGED readings
    /\ UNCHANGED queryFrame

QueryNext ==
    \/ \E count \in Counts : QueryLatest(count)
    \/ \E sensorType \in QueriedTypes : QueryLatestByType(sensorType)
    \/ \E startTime \in Dates, endTime \in Dates : QueryInTimeRange(startTime, endTime)

SpecQuery == QueryInit /\ [][QueryNext]_vars

(***************************************************************************)
(* The MQTT handler on its own, from construction.                         *)
(***************************************************************************)
HandlerFunctions == {HandleSensorData, "otherHandler"}
NotConnected == "rejected: MQTT client not connected"

MqttInit ==
    /\ mqttClient = "null"
    /\ isConnected = FALSE
    /\ topicHandlers = [t \in MqttTopics |-> NoHandler]
    /\ pending = EmptyBag
    /\ clientCalls = 0
    /\ lastResult = NoResult
    /\ latestSensorData = NullSensorData
    /\ readings = <<>>
    /\ handlers = [h \in HandlerIds |-> IdleHandler]
    /\ now = 0
    /\ refreshToken = <<>>
    /\ appended = 0
    /\ db = ReadyDb
    /\ disconnects = 0
    /\ connectPromise = "none"
    /\ inbound = NoInbound
    /\ outage = "none"
    /\ process = NewProcess(FullEnvironment)

storeState == <<latestSensorData, readings, handlers, now, refreshToken, appended, db>>
appFrame == <<latestSensorData, readings, handlers, now, refreshToken, appended, db,
              disconnects>>

\* part_000 30-44: connect() creates the client and returns a pending promise;
\* the transport events settle it
ConnectCall ==
    /\ mqttClient = "null"
    /\ mqttClient' = "open"
    /\ connectPromise' = "pending"
    /\ lastResult' = [op |-> "connect", outcome |-> "pending", n |-> lastResult.n]
    /\ UNCHANGED <<isConnected, topicHandlers, pending, clientCalls, inbound, outage>>
    /\ UNCHANGED appFrame

MqttConnect == ConnectCall /\ UNCHANGED process

\* a call handed to the broker client; the client fires the callbacks of the
\* calls it holds in an order of its own
ClientCall(op, topic, handler) == [op |-> op, topic |-> topic, handler |-> handler]
Hold(calls, call) == calls (+) SetToBag({call})
Release(calls, call) == calls (-) SetToBag({call})

\* part_000 88-95: subscribe rejects when not connected, else calls the client
SubscribeCall(topic, handler) ==
    /\ lastResult.n < MaxApiCalls
    /\ IF SubscribeGuard(isConnected)
       THEN /\ clientCalls' = clientCalls + 1
            /\ pending' = Hold(pending, ClientCall("subscribe", topic, handler))
            /\ lastResult' = [op |-> "subscribe", outcome |-> "pending",
                              n |-> lastResult.n + 1]
       ELSE /\ lastResult' = [op |-> "subscribe", outcome |-> NotConnected,
                              n |-> lastResult.n + 1]
            /\ UNCHANGED <<clientCalls, pending>>
    /\ outage' = "none"
    /\ UNCHANGED <<mqttClient, isConnected, topicHandlers, connectPromise, inbound>>
    /\ UNCHANGED appFrame

MqttSubscribe(topic, handler) == SubscribeCall(topic, handler) /\ UNCHANGED process

SubscribeCallbackMutant(call, err) ==
    /\ BagIn(call, pending)
    /\ call.op = "subscribe"
    /\ pending' = Release(pending, call)
    /\ IF err
       THEN /\ lastResult' = [op |-> "subscribe", outcome |-> "rejected: error",
                              n |-> lastResult.n]
            /\ UNCHANGED topicHandlers
       ELSE /\ lastResult' = [op |-> "subscribe", outcome |-> "resolved", n |-> lastResult.n]
            /\ topicHandlers' =
                   IF call.handler # NoHandler /\ topicHandlers[call.topic] = NoHandler
                   THEN [topicHandlers EXCEPT ![call.topic] = call.handler]
                   ELSE topicHandlers
    /\ UNCHANGED <<mqttClient, isConnected, clientCalls, linkHistory, process>>
    /\ UNCHANGED appFrame

SubscribeCallbackOnError(call, err) ==
    /\ BagIn(call, pending)
    /\ call.op = "subscribe"
    /\ pending' = Release(pending, call)
    /\ lastResult' = [op |-> "subscribe",
                      outcome |-> IF err THEN "rejected: error" ELSE "resolved",
                      n |-> lastResult.n]
    /\ topicHandlers' =
           IF call.handler # NoHandler
           THEN [topicHandlers EXCEPT ![call.topic] = call.handler]
           ELSE topicHandlers
    /\ UNCHANGED <<mqttClient, isConnected, clientCalls, linkHistory, process>>
    /\ UNCHANGED appFrame

\* part_000 95-108: the callback of mqttClient.subscribe
SubscribeCallback(call, err) ==
    /\ BagIn(call, pending)
    /\ call.op = "subscribe"
    /\ pending' = Release(pending, call)
    /\ IF err
       THEN /\ lastResult' = [op |-> "subscribe", outcome |-> "rejected: error",
                              n |-> lastResult.n]
            /\ UNCHANGED topicHandlers
       ELSE /\ lastResult' = [op |-> "subscribe", outcome |-> "resolved", n |-> lastResult.n]
            /\ topicHandlers' =
                   IF call.handler # NoHandler
                   THEN [topicHandlers EXCEPT ![call.topic] = call.handler]
                   ELSE topicHandlers
    /\ UNCHANGED <<mqttClient, isConnected, clientCalls, linkHistory, process>>
    /\ UNCHANGED appFrame

\* part_000 119-130: publish rejects when not connected, else calls the client
MqttPublish(topic) ==
    /\ lastResult.n < MaxApiCalls
    /\ IF PublishGuard(isConnected)
       THEN /\ clientCalls' = clientCalls + 1
            /\ pending' = Hold(pending, ClientCall("publish", topic, NoHandler))
            /\ lastResult' = [op |-> "publish", outcome |-> "pending",
                              n |-> lastResult.n + 1]
       ELSE /\ lastResult' = [op |-> "publish", outcome |-> NotConnected,
                              n |-> lastResult.n + 1]
            /\ UNCHANGED <<clientCalls, pending>>
    /\ UNCHANGED <<mqttClient, isConnected, topicHandlers, linkHistory, process>>
    /\ UNCHANGED appFrame

\* part_000 130-139: the callback of mqttClient.publish
PublishCallback(call, err) ==
    /\ BagIn(call, pending)
    /\ call.op = "publish"
    /\ pending' = Release(pending, call)
    /\ lastResult' = [op |-> "publish",
                      outcome |-> IF err THEN "rejected: error" ELSE "resolved",
                      n |-> lastResult.n]
    /\ UNCHANGED <<mqttClient, isConnected, clientCalls, topicHandlers, linkHistory, process>>
    /\ UNCHANGED appFrame

\* part_000 149: disconnect() ends the client only when there is one and the
\* connected flag is set
DisconnectGuard(client, connected) == client # "null" /\ connected

\* part_000 147-158: disconnect() calls mqttClient.end, or resolves at once
DisconnectCall ==
    /\ lastResult.n < MaxApiCalls
    /\ IF DisconnectGuard(mqttClient, isConnected)
       THEN /\ clientCalls' = clientCalls + 1
            /\ pending' = Hold(pending, ClientCall("end", <<>>, NoHandler))
            /\ lastResult' = [op |-> "disconnect", outcome |-> "pending",
                              n |-> lastResult.n + 1]
            /\ UNCHANGED disconnects
       ELSE /\ lastResult' = [op |-> "disconnect", outcome |-> "resolved",
                              n |-> lastResult.n + 1]
            /\ disconnects' = disconnects + 1
            /\ UNCHANGED <<clientCalls, pending>>
    /\ UNCHANGED <<mqttClient, isConnected, topicHandlers, linkHistory>>
    /\ UNCHANGED storeState

MqttDisconnect == DisconnectCall /\ UNCHANGED process

\* part_000 150-154: the callback of mqttClient.end clears the flag and resolves
EndCallback(call) ==
    /\ BagIn(call, pending)
    /\ call.op = "end"
    /\ pending' = Release(pending, call)
    /\ isConnected' = FALSE
    /\ mqttClient' = "ended"
    /\ lastResult' = [op |-> "disconnect", outcome |-> "resolved", n |-> lastResult.n]
    /\ disconnects' = disconnects + 1
    /\ UNCHANGED <<clientCalls, topicHandlers, linkHistory, process>>
    /\ UNCHANGED storeState

\* part_000 72-73: topicHandlers.has(topic), topicHandlers.get(topic)
HandlerForMutant(map, topic) ==
    IF \E t \in DOMAIN map : map[t] # NoHandler
    THEN map[CHOOSE t \in DOMAIN map : map[t] # NoHandler]
    ELSE NoHandler

HandlerFor(map, topic) ==
    IF topic \in DOMAIN map THEN map[topic] ELSE NoHandler

\* part_000 66-78: the message listener calls the handler registered for the
\* topic, if there is one, and catches what the call throws
MqttMessage(topic, throws) ==
    /\ mqttClient = "open"
    /\ isConnected
    /\ LET handler == HandlerFor(topicHandlers, topic)
       IN  /\ inbound' = [topic |-> topic, handler |-> handler,
                           calls |-> IF handler = NoHandler THEN 0 ELSE 1,
                           threw |-> handler # NoHandler /\ throws]
           /\ lastResult' = [op |-> "message",
                             outcome |-> IF handler = NoHandler THEN "dropped"
                                         ELSE "dispatched",
                             n |-> lastResult.n]
    /\ UNCHANGED <<mqttClient, isConnected, topicHandlers, pending, clientCalls,
                   connectPromise, outage, process>>
    /\ UNCHANGED appFrame

\* the calls the specification hands to the broker client
ClientCalls ==
    {ClientCall("subscribe", t, h) : t \in SensorTopics, h \in HandlerFunctions \cup {NoHandler}}
        \cup {ClientCall("publish", TopicQuote, NoHandler), ClientCall("end", <<>>, NoHandler)}

MqttNext ==
    \/ MqttConnect
    \/ EvConnect
    \/ EvOffline
    \/ EvReconnect
    \/ EvError
    \/ \E topic \in SensorTopics, handler \in HandlerFunctions \cup {NoHandler} :
           MqttSubscribe(topic, handler)
    \/ \E call \in ClientCalls, err \in BOOLEAN : SubscribeCallback(call, err)
    \/ MqttPublish(TopicQuote)
    \/ \E call \in ClientCalls, err \in BOOLEAN : PublishCallback(call, err)
    \/ MqttDisconnect
    \/ \E call \in ClientCalls : EndCallback(call)
    \/ \E topic \in MqttTopics, throws \in BOOLEAN : MqttMessage(topic, throws)

SpecMqtt == MqttInit /\ [][MqttNext]_vars

(***************************************************************************)
(* The process from its start: index.js loads the configuration, creates   *)
(* the handlers, registers the SIGINT handler and calls initialize().  A   *)
(* continuation of an await runs as a microtask, before the next transport *)
(* event, callback or signal: while one is ready nothing else happens.     *)
(* process.exit() ends the process: nothing happens afterwards.            *)
(***************************************************************************)
\* part_001 189-287: loadConfig throws when a required variable is not set
LoadConfigThrows(env) == ~(RequiredVars \subseteq env.vars)

\* index.js 58-94: after a configuration error the process goes on with default
\* settings when NODE_ENV is production, and exits otherwise
ContinuesWithDefaults(env) == env.mode = "production"

\* index.js 77 and 120-121: the default of gmail.clientId is the empty string when
\* GMAIL_CLIENT_ID is not set, and the constructor of GoogleStrategy throws a
\* TypeError when its clientID option is empty.  A configuration that loadConfig
\* returned has a client id
GoogleStrategyThrowsMutant(env) == FALSE
GoogleStrategyThrows(env) == LoadConfigThrows(env) /\ "GMAIL_CLIENT_ID" \notin env.vars

\* part_001 22-26 and 172: the store module is loaded before the body of index.js
\* runs; its constructor has called _initialize(), whose db.read() is in flight
ProcInit ==
    /\ process \in {NewProcess(env) : env \in Environments}
    /\ mqttClient = "null"
    /\ isConnected = FALSE
    /\ topicHandlers = [t \in MqttTopics |-> NoHandler]
    /\ pending = EmptyBag
    /\ clientCalls = 0
    /\ lastResult = NoResult
    /\ connectPromise = "none"
    /\ inbound = NoInbound
    /\ outage = "none"
    /\ latestSensorData = NullSensorData
    /\ readings = <<>>
    /\ handlers = [h \in HandlerIds |-> IdleHandler]
    /\ now = 0
    /\ refreshToken = <<>>
    /\ appended = 0
    /\ db = NewDb(<<>>)
    /\ disconnects = 0

mqttState == <<mqttClient, isConnected, topicHandlers, pending, clientCalls, lastResult,
               connectPromise, inbound, outage>>

\* index.js 46-124 and 393-400, then initialize() up to await mqttHandler.connect().
\* process.exit(1) after a configuration error outside production, and the
\* TypeError of the GoogleStrategy constructor, which nothing catches, both end
\* the process with code 1 before initialize() is called
Startup ==
    /\ ~process.exited
    /\ process.initialize = "notStarted"
    /\ IF \/ LoadConfigThrows(process.env) /\ ~ContinuesWithDefaults(process.env)
          \/ GoogleStrategyThrows(process.env)
       THEN /\ process' = Exit(process, 1)
            /\ UNCHANGED mqttState
            /\ UNCHANGED appFrame
       ELSE /\ process' = [process EXCEPT !.initialize = "connect"]
            /\ ConnectCall

\* the await of initialize() has settled
InitializeResumes ==
    \/ /\ process.initialize = "connect"
       /\ connectPromise \in {"resolved", "rejected"}
    \/ /\ process.initialize \in {"subscribeTemperature", "subscribeHumidity"}
       /\ lastResult.op = "subscribe"
       /\ lastResult.outcome # "pending"

\* the await of a SIGINT handler has settled
ShutdownResumesMutant(proc, result) == proc.shutdowns > 0

ShutdownResumes(proc, result) ==
    /\ proc.shutdowns > 0
    /\ result.op = "disconnect"
    /\ result.outcome = "resolved"

Quiescent == Running /\ ~InitializeResumes /\ ~ShutdownResumes(process, lastResult)

\* index.js 310-313: connect() resolved, the temperature topic is subscribed
InitializeAfterConnect ==
    /\ Running
    /\ process.initialize = "connect"
    /\ connectPromise = "resolved"
    /\ SubscribeCall(TopicTemperature, HandleSensorData)
    /\ process' = [process EXCEPT !.initialize = "subscribeTemperature"]

\* index.js 313-314: the first subscribe resolved, the humidity topic is subscribed
InitializeAfterTemperature ==
    /\ Running
    /\ process.initialize = "subscribeTemperature"
    /\ lastResult.op = "subscribe"
    /\ lastResult.outcome = "resolved"
    /\ SubscribeCall(TopicHumidity, HandleSensorData)
    /\ process' = [process EXCEPT !.initialize = "subscribeHumidity"]

\* index.js 314-384: the second subscribe resolved, the routes are set up and the
\* server listens
InitializeAfterHumidity ==
    /\ Running
    /\ process.initialize = "subscribeHumidity"
    /\ lastResult.op = "subscribe"
    /\ lastResult.outcome = "resolved"
    /\ process' = [process EXCEPT !.initialize = "listening"]
    /\ UNCHANGED mqttState
    /\ UNCHANGED appFrame

\* index.js 386-389: connect() or a subscribe rejected
InitializeFails ==
    /\ Running
    /\ InitializeResumes
    /\ \/ connectPromise = "rejected" /\ process.initialize = "connect"
       \/ /\ process.initialize \in {"subscribeTemperature", "subscribeHumidity"}
          /\ lastResult.outcome # "resolved"
    /\ process' = Exit([process EXCEPT !.initialize = "failed"], 1)
    /\ UNCHANGED mqttState
    /\ UNCHANGED appFrame

\* the subscribe calls initialize() has still to make
SubscribesAhead(proc) ==
    IF proc.initialize = "connect" THEN 2
    ELSE IF proc.initialize = "subscribeTemperature" THEN 1
    ELSE 0

\* index.js 393-395: SIGINT arrives, the handler calls disconnect() and awaits it
Sigint ==
    /\ process.initialize # "notStarted"
    /\ lastResult.n + SubscribesAhead(process) < MaxApiCalls
    /\ DisconnectCall
    /\ process' = [process EXCEPT !.shutdowns = @ + 1]

\* index.js 395-396: disconnect() resolved, the handler exits with code 0
ShutdownExit ==
    /\ Running
    /\ ShutdownResumes(process, lastResult)
    /\ process' = Exit(process, 0)
    /\ UNCHANGED mqttState
    /\ UNCHANGED appFrame

ProcNext ==
    \/ Startup
    \/ InitializeAfterConnect
    \/ InitializeAfterTemperature
    \/ InitializeAfterHumidity
    \/ InitializeFails
    \/ ShutdownExit
    \/ Quiescent /\ Sigint
    \/ Quiescent /\ EvConnect
    \/ Quiescent /\ EvOffline
    \/ Quiescent /\ EvReconnect
    \/ Quiescent /\ EvError
    \/ Quiescent /\ \E call \in ClientCalls, err \in BOOLEAN : SubscribeCallback(call, err)
    \/ Quiescent /\ \E call \in ClientCalls : EndCallback(call)
    \/ Quiescent /\ process.initialize # "notStarted" /\ InitialReadTakesFile
    \/ Quiescent /\ process.initialize # "notStarted"
                 /\ \E ok \in BOOLEAN : InitialReadSettles(ok)

SpecProcess == ProcInit /\ [][ProcNext]_vars

(***************************************************************************)
(* Reading the history of a handler.                                       *)
(***************************************************************************)
Events(r) == {r.trace[i] : i \in 1..Len(r.trace)}
Called(r, name) == \E e \in Events(r) : e.ev = "call" /\ e.name = name
Publishes(r, topic) == {e \in Events(r) : e.ev = "publish" /\ e.topic = topic}
\* the broker client took a message of this run for the topic and reported no error
Received(r, topic) == \E e \in Publishes(r, topic) : e.res = "ok"
ReceivedMsg(r, topic, msg) == \E e \in Publishes(r, topic) : e.res = "ok" /\ e.msg = msg
\* mqttHandler.publish was called for the topic and has settled
Attempted(r, topic) == Publishes(r, topic) # {}
\* the run passed the guard of processSensorData
RunStarted(r) == Called(r, "generateQuote")
RunEnded(r) == RunStarted(r) /\ r.pc = "done"
Evaluated(r) == r.evalAt # NoSnapshot
WriteFailed(r) ==
    \E e \in Events(r) : e.ev = "return" /\ e.name = "storeSensorReading" /\ e.res = "failed"
FetchFailed(r) ==
    \E e \in Events(r) : e.ev = "return" /\ e.name = "fetchUnreadEmails" /\ e.res = "failed"
\* the real quote of the run reached the quote topic
QuoteDelivered(r) == ReceivedMsg(r, TopicQuote, r.quote)
\* isEmailEnabled() answered false in this run
MailboxDisabled(r) ==
    \E e \in Events(r) : e.ev = "return" /\ e.name = "isEmailEnabled" /\ e.res = "false"
MailboxOrTextCalls == {"isEmailEnabled", "fetchUnreadEmails", "summarizeEmails",
                       "determinePriority"}

(***************************************************************************)
(* C1.  Whenever the guard of processSensorData is evaluated for an        *)
(* ingested temperature or humidity message, the pipeline run starts if    *)
(* and only if both the latest temperature and the latest humidity are     *)
(* non-null at that moment.                                                *)
(***************************************************************************)
C1_TriggerIffBothPresent ==
    \A h \in HandlerIds :
        LET r == handlers[h]
        IN  /\ RunStarted(r) => Evaluated(r)
            /\ Evaluated(r) =>
                  (RunStarted(r) <=> (r.evalAt[1] # JsNull /\ r.evalAt[2] # JsNull))

\* one message was held back by the guard, another one started a run
C1_Witness ==
    \E h1, h2 \in HandlerIds :
        /\ Evaluated(handlers[h1]) /\ ~RunStarted(handlers[h1])
        /\ Evaluated(handlers[h2]) /\ RunStarted(handlers[h2])

(***************************************************************************)
(* C2.  Once all handlers have finished, the latest value held for each    *)
(* kind equals the value of the most recently arrived message of that      *)
(* kind.  (storeSensorReading pushes the reading synchronously on arrival, *)
(* so the newest reading of a kind in the log is the most recently arrived *)
(* message of that kind.)  The code does not keep this.                    *)
(***************************************************************************)
AllHandlersFinished == \A h \in HandlerIds : handlers[h].pc \in {"idle", "done"}
ArrivedOfKind(kind) == {i \in 1..Len(readings) : readings[i].type = kind}
LastArrived(kind) ==
    readings[CHOOSE i \in ArrivedOfKind(kind) : \A j \in ArrivedOfKind(kind) : j <= i]

C2_LastWriteWins ==
    AllHandlersFinished =>
        /\ ArrivedOfKind("temperature") # {} =>
               latestSensorData.temperature = LastArrived("temperature").value
        /\ ArrivedOfKind("humidity") # {} =>
               latestSensorData.humidity = LastArrived("humidity").value

(***************************************************************************)
(* C3.  When an append returns the in-memory log holds at most 1000        *)
(* readings, and after more than 1000 appends it holds exactly the 1000    *)
(* most recently appended readings in arrival order.                       *)
(***************************************************************************)
C3_StoreKeepsLast1000 ==
    /\ Len(readings) <= MaxReadings
    /\ Len(readings) = IF appended > MaxReadings THEN MaxReadings ELSE appended
    /\ \A i \in 1..Len(readings) :
           readings[i] = NthReading(appended - Len(readings) + i)

\* two readings have been evicted from the front
C3_Witness ==
    /\ appended = MaxReadings + 2
    /\ Len(readings) = MaxReadings
    /\ readings[1] = NthReading(3)
    /\ readings[MaxReadings] = NthReading(MaxReadings + 2)

(***************************************************************************)
(* C4, as stated.  In a run where the mailbox is enabled and fetching      *)
(* unread messages fails, the quote has been published and what the run    *)
(* sends to the email topic is the error sentinel 'Email processing       *)
(* error'.                                                                 *)
(***************************************************************************)
C4_FetchFailureGivesErrorSentinel ==
    \A h \in HandlerIds :
        LET r == handlers[h]
        IN  FetchFailed(r) =>
                /\ QuoteDelivered(r)
                /\ \A e \in Publishes(r, TopicEmail) : e.msg = EmailProcessingError

(***************************************************************************)
(* C4, amended.  In a run where the mailbox is enabled and fetching unread *)
(* messages fails, the quote has been published, fetchUnreadEmails returns *)
(* an empty list instead of throwing, the email summary is 'No unread      *)
(* emails', that is the only value the run sends to the email topic, the   *)
(* email publish is issued before the run ends, and the run ends without   *)
(* an exception.                                                           *)
(***************************************************************************)
HandlerPcs == {"idle", "write", "quote", "pubQuote", "fetch", "summarize", "priority",
               "pubEmail", "pubPriority", "pubErr", "done"}

C4_FetchFailureGivesNoUnreadEmails ==
    \A h \in HandlerIds :
        LET r == handlers[h]
        IN  FetchFailed(r) =>
                /\ QuoteDelivered(r)
                /\ r.emails = NoEmails
                /\ r.emailSummary = NoUnreadEmails
                /\ ~Called(r, "summarizeEmails")
                /\ \A e \in Publishes(r, TopicEmail) : e.msg = NoUnreadEmails
                /\ r.pc = "done" => Attempted(r, TopicEmail)
                /\ r.pc \in HandlerPcs

C4_Witness ==
    \E h \in HandlerIds :
        /\ FetchFailed(handlers[h])
        /\ handlers[h].pc = "done"
        /\ ReceivedMsg(handlers[h], TopicEmail, NoUnreadEmails)

(***************************************************************************)
(* C5.  By the time a triggered run ends, each of the quote, email and     *)
(* priority topics has received a publish from that run, under any         *)
(* combination of collaborator failures, publish failures and connection   *)
(* state.  The code does not do this: the run stops publishing at its      *)
(* first rejected publish (index.js 240-292).                              *)
(***************************************************************************)
AllTopicsReceived(r) ==
    Received(r, TopicQuote) /\ Received(r, TopicEmail) /\ Received(r, TopicPriority)

C5_EveryTopicReceives ==
    \A h \in HandlerIds : RunEnded(handlers[h]) => AllTopicsReceived(handlers[h])

(***************************************************************************)
(* C6.  In every triggered run the email summary and the priority are      *)
(* published whether the quote step (quote generation and its publish)     *)
(* succeeded or failed.  The code does not do this: a rejected quote       *)
(* publish skips both (index.js 248, 292).                                 *)
(***************************************************************************)
C6_EmailAndPriorityRegardlessOfQuote ==
    \A h \in HandlerIds :
        RunEnded(handlers[h]) =>
            Attempted(handlers[h], TopicEmail) /\ Attempted(handlers[h], TopicPriority)

(***************************************************************************)
(* C7.  In every triggered run the quote publish is attempted before any   *)
(* mailbox or summary/priority call of that run, so a failure of those     *)
(* calls never prevents the quote from being published.                    *)
(***************************************************************************)
C7_QuotePublishFirst ==
    \A h \in HandlerIds :
        LET tr == handlers[h].trace
        IN  \A i \in 1..Len(tr) :
                (tr[i].ev = "call" /\ tr[i].name \in MailboxOrTextCalls) =>
                    \E j \in 1..(i - 1) :
                        /\ tr[j].ev = "publish"
                        /\ tr[j].topic = TopicQuote
                        /\ tr[j].msg = handlers[h].quote

\* the mailbox fetch failed in a run whose quote is already out
C7_Witness ==
    \E h \in HandlerIds :
        /\ FetchFailed(handlers[h])
        /\ Called(handlers[h], "determinePriority")
        /\ QuoteDelivered(handlers[h])

(***************************************************************************)
(* C8.  Whenever publish or subscribe is called while isConnected is       *)
(* false, the call rejects with the not-connected error, makes no call on  *)
(* the broker client, and leaves the handler map unchanged.                *)
(***************************************************************************)
ApiCallMade == lastResult'.n = lastResult.n + 1

C8_NotConnectedFailsFast ==
    [][ (ApiCallMade /\ lastResult'.op \in {"publish", "subscribe"} /\ ~isConnected) =>
            /\ lastResult'.outcome = NotConnected
            /\ clientCalls' = clientCalls
            /\ pending' = pending
            /\ topicHandlers' = topicHandlers ]_vars

\* a publish rejected after the connection dropped, with a handler registered
\* earlier through the broker client
C8_Witness ==
    /\ lastResult.op = "publish"
    /\ lastResult.outcome = NotConnected
    /\ ~isConnected
    /\ clientCalls > 0
    /\ \E t \in SensorTopics : topicHandlers[t] # NoHandler

(***************************************************************************)
(* C9.  When storing a reading fails during ingestion, the latest value of *)
(* that reading's kind is still updated and the readiness check still      *)
(* takes place for that message.  The code does not do this.               *)
(***************************************************************************)
KindValue(snapshot, kind) == IF kind = "temperature" THEN snapshot[1] ELSE snapshot[2]

C9_StoreFailureDoesNotBlock ==
    \A h \in HandlerIds :
        LET r == handlers[h]
        IN  WriteFailed(r) =>
                /\ Evaluated(r)
                /\ KindValue(r.evalAt, r.sensorType) = r.sensorValue

(***************************************************************************)
(* C10.  In every run where the mailbox reports itself not enabled, the    *)
(* email topic receives 'No email data available', the priority topic      *)
(* receives 'normal', and neither fetchUnreadEmails nor a summary/priority *)
(* text call is made.  The topics do not receive the values when a publish *)
(* of the run is rejected (C5, C6).                                        *)
(***************************************************************************)
NoMailboxWork(r) ==
    /\ ~Called(r, "fetchUnreadEmails")
    /\ ~Called(r, "summarizeEmails")
    /\ ~Called(r, "determinePriority")

C10_DisabledMailboxSentinels ==
    \A h \in HandlerIds :
        LET r == handlers[h]
        IN  (MailboxDisabled(r) /\ r.pc = "done") =>
                /\ ReceivedMsg(r, TopicEmail, NoEmailData)
                /\ ReceivedMsg(r, TopicPriority, "normal")
                /\ NoMailboxWork(r)

(***************************************************************************)
(* C11.  The transport events offline, reconnect and connect leave the     *)
(* topic-to-handler map unchanged, and a message that arrives after the    *)
(* connection went offline and came back, with no subscribe call since, is *)
(* handed once to the handler the map holds for its topic.                 *)
(***************************************************************************)
TransportEvent(result, names) == result.op = "event" /\ result.outcome \in names

C11_EventsKeepHandlers ==
    [][ /\ TransportEvent(lastResult', {"offline", "reconnect", "connect"}) =>
               topicHandlers' = topicHandlers
        /\ (outage = "back" /\ lastResult'.op = "message"
              /\ topicHandlers[inbound'.topic] # NoHandler) =>
               /\ inbound'.handler = topicHandlers[inbound'.topic]
               /\ inbound'.calls = 1 ]_vars

\* a temperature message reached handleSensorData after an outage
C11_Witness ==
    /\ outage = "back"
    /\ lastResult.op = "message"
    /\ lastResult.outcome = "dispatched"
    /\ inbound.topic = TopicTemperature
    /\ inbound.handler = HandleSensorData
    /\ inbound.calls = 1

(***************************************************************************)
(* C15.  disconnect() called while the connected flag is false resolves at *)
(* once without a call on the broker client and changes nothing; called    *)
(* while connected it ends the client, and the flag is false when the      *)
(* promise resolves; a disconnect() called after an earlier one has        *)
(* resolved, however long after, resolves at once and changes nothing.     *)
(* The last part fails: a disconnect() that resolved while the flag was    *)
(* false left the client open (C35), the flag becomes true at its next     *)
(* connect event, and the next disconnect() ends the client.               *)
(***************************************************************************)
DisconnectCalled == lastResult'.n = lastResult.n + 1 /\ lastResult'.op = "disconnect"
DisconnectResolved(result) == result.op = "disconnect" /\ result.outcome = "resolved"
EndCall == [op |-> "end", topic |-> <<>>, handler |-> NoHandler]
HandlerStateUnchanged ==
    UNCHANGED <<mqttClient, isConnected, topicHandlers, pending, clientCalls,
                connectPromise>>

C15_DisconnectIdempotent ==
    [][ /\ (DisconnectCalled /\ ~isConnected) =>
               DisconnectResolved(lastResult') /\ HandlerStateUnchanged
        /\ (DisconnectCalled /\ isConnected) =>
               /\ lastResult'.outcome = "pending"
               /\ clientCalls' = clientCalls + 1
               /\ CopiesIn(EndCall, pending') = CopiesIn(EndCall, pending) + 1
        /\ (DisconnectResolved(lastResult') /\ pending' # pending) =>
               /\ ~isConnected'
               /\ CopiesIn(EndCall, pending') = CopiesIn(EndCall, pending) - 1
        /\ (DisconnectCalled /\ disconnects > 0) =>
               DisconnectResolved(lastResult') /\ HandlerStateUnchanged ]_vars

(***************************************************************************)
(* C16.  When the broker client confirms subscribe(topic, handler), the    *)
(* map holds exactly handler for topic, whatever it held for that topic    *)
(* before, and the registrations of all other topics are unchanged.        *)
(***************************************************************************)
C16_SubscribeRegistersHandler ==
    [][ \A call \in ClientCalls :
            ( /\ call.op = "subscribe"
              /\ call.handler # NoHandler
              /\ BagIn(call, pending)
              /\ CopiesIn(call, pending') = CopiesIn(call, pending) - 1
              /\ lastResult'.op = "subscribe"
              /\ lastResult'.outcome = "resolved" ) =>
                /\ topicHandlers'[call.topic] = call.handler
                /\ \A t \in DOMAIN topicHandlers \ {call.topic} :
                       topicHandlers'[t] = topicHandlers[t]
                /\ DOMAIN topicHandlers' = DOMAIN topicHandlers ]_vars

\* the temperature topic, which dispatched to handleSensorData earlier, now holds
\* the other handler; the humidity registration is as it was
C16_Witness ==
    /\ lastResult.op = "subscribe"
    /\ lastResult.outcome = "resolved"
    /\ topicHandlers[TopicTemperature] = "otherHandler"
    /\ topicHandlers[TopicHumidity] = HandleSensorData
    /\ inbound.topic = TopicTemperature
    /\ inbound.handler = HandleSensorData

(***************************************************************************)
(* C17.  For every inbound message the listener calls, once, exactly the   *)
(* handler registered for the very topic of the message; when no handler   *)
(* is registered for it no handler is called and the state of the MQTT     *)
(* handler is unchanged.                                                   *)
(***************************************************************************)
C17_DispatchByExactTopic ==
    [][ lastResult'.op = "message" =>
            LET registered == IF inbound'.topic \in DOMAIN topicHandlers
                              THEN topicHandlers[inbound'.topic] ELSE NoHandler
            IN  /\ inbound'.handler = registered
                /\ inbound'.calls = IF registered = NoHandler THEN 0 ELSE 1
                /\ registered = NoHandler => lastResult'.outcome = "dropped"
                /\ HandlerStateUnchanged ]_vars

\* a humidity message was dropped while only the temperature topic had a handler
C17_Witness ==
    /\ lastResult.op = "message"
    /\ lastResult.outcome = "dropped"
    /\ inbound.topic = TopicHumidity
    /\ inbound.calls = 0
    /\ topicHandlers[TopicTemperature] = HandleSensorData
    /\ topicHandlers[TopicHumidity] = NoHandler

(***************************************************************************)
(* C14.  The promise of connect() resolves at the first connect event and  *)
(* at no other step, and rejects only at an error event that arrives while *)
(* it is still pending; an error event that arrives after the promise has  *)
(* resolved leaves the promise resolved, the connected flag as it was and  *)
(* the process running.                                                    *)
(***************************************************************************)
C14_ConnectSettlesOnFirstEvent ==
    [][ /\ (connectPromise = "pending" /\ TransportEvent(lastResult', {"connect"})) =>
               connectPromise' = "resolved"
        /\ (connectPromise # "resolved" /\ connectPromise' = "resolved") =>
               connectPromise = "pending" /\ TransportEvent(lastResult', {"connect"})
        /\ (connectPromise # "rejected" /\ connectPromise' = "rejected") =>
               connectPromise = "pending" /\ TransportEvent(lastResult', {"error"})
        /\ (connectPromise = "resolved" /\ TransportEvent(lastResult', {"error"})) =>
               /\ connectPromise' = "resolved"
               /\ isConnected' = isConnected
               /\ process' = process ]_vars

\* an error event arrived while the application was up and connected
C14_Witness ==
    /\ connectPromise = "resolved"
    /\ TransportEvent(lastResult, {"error"})
    /\ isConnected
    /\ process.initialize = "listening"
    /\ ~process.exited

(***************************************************************************)
(* C19, as stated.  If loading the configuration fails at startup, the     *)
(* process exits with code 1 and no broker connection is ever attempted,   *)
(* whatever NODE_ENV is.                                                   *)
(***************************************************************************)
Started == process.exited \/ process.initialize # "notStarted"
ConnectionAttempted == mqttClient # "null"

C19_ConfigFailureExitsInEveryMode ==
    LoadConfigThrows(process.env) =>
        /\ ~ConnectionAttempted
        /\ Started => (process.exited /\ process.exitCode = 1)

(***************************************************************************)
(* C19, amended.  If loading the configuration fails at startup, the       *)
(* process exits with code 1 and no broker connection is ever attempted    *)
(* when NODE_ENV is not production, and also when NODE_ENV is production   *)
(* and GMAIL_CLIENT_ID is not set (the GoogleStrategy constructor throws); *)
(* when NODE_ENV is production and GMAIL_CLIENT_ID is set, the process     *)
(* goes on with default settings, calls initialize() and attempts the      *)
(* broker connection.                                                      *)
(***************************************************************************)
C19_ConfigFailureExitsUnlessDefaultsServe ==
    LoadConfigThrows(process.env) =>
        IF process.env.mode = "production" /\ "GMAIL_CLIENT_ID" \in process.env.vars
        THEN Started => (ConnectionAttempted /\ process.initialize # "notStarted")
        ELSE /\ ~ConnectionAttempted
             /\ Started => (process.exited /\ process.exitCode = 1)

\* NODE_ENV is production, only GMAIL_CLIENT_ID is missing, the process has exited
\* with code 1 before initialize()
C19_Witness ==
    /\ process.env.mode = "production"
    /\ process.env.vars = RequiredVars \ {"GMAIL_CLIENT_ID"}
    /\ process.exited
    /\ process.exitCode = 1
    /\ process.initialize = "notStarted"
    /\ ~ConnectionAttempted

(***************************************************************************)
(* C20.  A termination signal makes the process call disconnect(), and the *)
(* signal handler exits the process, with code 0, only in a step that      *)
(* follows the resolution of disconnect(); the process never ends with     *)
(* code 0 in another way.  (An exit with code 1 comes from initialize()    *)
(* failing, index.js 386-389, not from the signal handler.)                *)
(***************************************************************************)
C20_ExitAfterDisconnectResolved ==
    [][ /\ process'.shutdowns = process.shutdowns + 1 => DisconnectCalled
        /\ (process'.exited /\ ~process.exited /\ process'.exitCode = 0) =>
               /\ process.shutdowns > 0
               /\ DisconnectResolved(lastResult) ]_vars

\* the signal came while connected: the client was ended, then the process exited
C20_Witness ==
    /\ process.exited
    /\ process.exitCode = 0
    /\ process.initialize = "listening"
    /\ mqttClient = "ended"
    /\ ~isConnected

(***************************************************************************)
(* C12.  After one temperature message and then one humidity message,      *)
(* both numeric, have been ingested from the initial state and handled to  *)
(* the end, exactly one pipeline run has started, and generateQuote was    *)
(* called in it with exactly that temperature and that humidity.  The code *)
(* does not keep this: a failed store write drops the message (C9).        *)
(***************************************************************************)
QuoteArgs(r) ==
    {e.args : e \in {x \in Events(r) : x.ev = "call" /\ x.name = "generateQuote"}}
IsNumber(val) == val.t = "number"

C12_TemperatureThenHumidityTriggersOnce ==
    ( /\ AllHandlersFinished
      /\ handlers[1].sensorType = "temperature" /\ IsNumber(handlers[1].sensorValue)
      /\ handlers[2].sensorType = "humidity" /\ IsNumber(handlers[2].sensorValue) ) =>
        /\ Cardinality({h \in HandlerIds : RunStarted(handlers[h])}) = 1
        /\ \A h \in HandlerIds :
               RunStarted(handlers[h]) =>
                   QuoteArgs(handlers[h]) =
                       {<<handlers[1].sensorValue, handlers[2].sensorValue>>}

(***************************************************************************)
(* C13.  Whatever fails while a message is handled (the payload does not   *)
(* parse, the store write fails, a collaborator fails, a publish fails),   *)
(* the handler runs to its end without an exception, the process keeps     *)
(* running with both sensor topics registered, and the next message on     *)
(* either topic is handed to the handler.                                  *)
(***************************************************************************)
C13_NoFailureEscapes ==
    /\ \A h \in HandlerIds : handlers[h].pc \in HandlerPcs
    /\ ~process.exited
    /\ \A t \in SensorTopics : topicHandlers[t] = HandleSensorData
    /\ (now < MaxMsgs /\ isConnected) =>
           \A t \in SensorTopics, m \in Payloads : ENABLED Dispatch(t, m)

\* a temperature message that is not JSON, then a humidity message whose run saw
\* the quote request fail, the quote publish fail and the error publish fail
C13_Witness ==
    /\ handlers[1].pc = "done"
    /\ handlers[1].sensorValue = JsNaN
    /\ handlers[2].pc = "done"
    /\ RunStarted(handlers[2])
    /\ handlers[2].quote = FallbackQuote
    /\ Cardinality({e \in Events(handlers[2]) : e.ev = "publish" /\ e.res = "error"}) = 2

(***************************************************************************)
(* C18.  A pipeline run in which a publish of the quote, the email summary *)
(* or the priority fails makes exactly one publish of the generic error    *)
(* string to the quote topic, right after the failure, as its last step,   *)
(* and ends without an exception whether that publish succeeds or fails; a *)
(* run in which no publish fails never publishes the error string.         *)
(***************************************************************************)
ErrorPublishes(r) ==
    {i \in 1..Len(r.trace) :
        /\ r.trace[i].ev = "publish"
        /\ r.trace[i].topic = TopicQuote
        /\ r.trace[i].msg = SystemErrorMessage}
FailedPublishes(r) ==
    {i \in 1..Len(r.trace) :
        /\ r.trace[i].ev = "publish"
        /\ r.trace[i].res # "ok"
        /\ r.trace[i].msg # SystemErrorMessage}

C18_OneBestEffortErrorPublish ==
    \A h \in HandlerIds :
        LET r == handlers[h]
        IN  /\ r.pc \in HandlerPcs
            /\ Cardinality(FailedPublishes(r)) <= 1
            /\ \A i \in ErrorPublishes(r) : i = Len(r.trace) /\ (i - 1) \in FailedPublishes(r)
            /\ FailedPublishes(r) # {} => r.pc \in {"pubErr", "done"}
            /\ RunEnded(r) =>
                   Cardinality(ErrorPublishes(r)) = IF FailedPublishes(r) # {} THEN 1 ELSE 0

\* the email publish failed, then the error publish failed as well, and the run ended
C18_Witness ==
    \E h \in HandlerIds :
        LET r == handlers[h]
        IN  /\ RunEnded(r)
            /\ \E i \in FailedPublishes(r) : r.trace[i].topic = TopicEmail
            /\ r.trace[Len(r.trace)] = PubEv(TopicQuote, SystemErrorMessage, "error")

(***************************************************************************)
(* C21.  Every value a run sends to the priority topic, in flight or       *)
(* settled, is one of 'normal', 'warning', 'urgent'.  It is 'normal' when  *)
(* the classification request failed, when the reply, trimmed and          *)
(* lower-cased, is outside the three levels, and when the run reached the  *)
(* priority publish without a classification (mailbox disabled, or the     *)
(* email block failed before it).                                          *)
(***************************************************************************)
PriorityReplyOf(r) ==
    {e.res : e \in {x \in Events(r) : x.ev = "reply" /\ x.name = "determinePriority"}}
\* the values of the run the priority topic was or is being sent
PrioritySent(r) ==
    {e.msg : e \in Publishes(r, TopicPriority)}
        \cup (IF r.pc = "pubPriority" THEN {r.priority} ELSE {})

C21_PriorityIsValid ==
    \A h \in HandlerIds :
        LET r == handlers[h]
        IN  \A p \in PrioritySent(r) :
                /\ p \in ValidResponses
                /\ PriorityReplyOf(r) = {} => p = "normal"
                /\ \A reply \in PriorityReplyOf(r) :
                       /\ reply = Fail => p = "normal"
                       /\ (reply # Fail /\ TrimLowerCase(reply) \notin ValidResponses)
                              => p = "normal"
                       /\ (reply # Fail /\ TrimLowerCase(reply) \in ValidResponses)
                              => p = TrimLowerCase(reply)

\* the classification answered a word outside the three levels and the priority
\* topic received 'normal'
C21_Witness ==
    \E h \in HandlerIds :
        /\ PriorityReplyOf(handlers[h]) = {"maybe"}
        /\ ReceivedMsg(handlers[h], TopicPriority, "normal")

(***************************************************************************)
(* C22.  For every log and every count >= 0, getLatestReadings(count)      *)
(* returns the last min(count, length) readings of the log in insertion    *)
(* order; count = 0 returns no readings.  The code does not keep this for  *)
(* count = 0.                                                              *)
(***************************************************************************)
LastReadings(log, k) == SubSeq(log, Len(log) - k + 1, Len(log))
MinOf(a, b) == IF a < b THEN a ELSE b

C22_LatestReturnsLastCount ==
    lastResult.op = "getLatestReadings" =>
        lastResult.value = LastReadings(readings, MinOf(lastResult.args[1], Len(readings)))

(***************************************************************************)
(* C23.  getReadingsInTimeRange(start, end) returns exactly the readings   *)
(* of the log whose timestamp t satisfies start <= t <= end, in insertion  *)
(* order.  The code does not keep this for a timestamp that is not in the  *)
(* toISOString form.                                                       *)
(***************************************************************************)
TimeInRange(reading, startTime, endTime) ==
    /\ MillisOfDate(startTime) <= MillisOfText(reading.timestamp)
    /\ MillisOfText(reading.timestamp) <= MillisOfDate(endTime)

C23_RangeReturnsExactlyInRange ==
    (lastResult.op = "getReadingsInTimeRange" /\ lastResult.outcome = "resolved") =>
        lastResult.value =
            SelectSeq(readings, LAMBDA reading :
                TimeInRange(reading, lastResult.args[1], lastResult.args[2]))

(***************************************************************************)
(* C24.  getLatestReadingByType(kind) returns the reading of that kind     *)
(* with the highest position in the log, or null when the log holds no     *)
(* reading of that kind.                                                   *)
(***************************************************************************)
PositionsOfType(log, sensorType) == {i \in 1..Len(log) : log[i].type = sensorType}

C24_LatestByTypeIsLastOfKind ==
    lastResult.op = "getLatestReadingByType" =>
        LET positions == PositionsOfType(readings, lastResult.args[1])
        IN  IF positions = {}
            THEN lastResult.value = JsNull
            ELSE /\ lastResult.value \in {readings[i] : i \in positions}
                 /\ \A i \in positions : i <= lastResult.value.value.v

\* two temperature readings with a humidity reading after them: the second
\* temperature reading is returned; and a kind the log does not hold gives null
C24_Witness ==
    /\ Len(readings) = 3
    /\ readings[1].type = "temperature"
    /\ readings[2].type = "temperature"
    /\ readings[3].type = "humidity"
    /\ lastResult.op = "getLatestReadingByType"
    /\ lastResult.args = <<"temperature">>
    /\ lastResult.value = readings[2]

(***************************************************************************)
(* C25.  Once the latest value of a kind has become non-null it never      *)
(* becomes null again, for any later message payload.  The code does not   *)
(* keep this: a payload whose value member is null clears it.              *)
(***************************************************************************)
C25_LatestNeverNullAgain ==
    [][ /\ latestSensorData.temperature # JsNull => latestSensorData'.temperature # JsNull
        /\ latestSensorData.humidity # JsNull => latestSensorData'.humidity # JsNull ]_vars

(***************************************************************************)
(* C26.  Once both values are present, every further successfully          *)
(* ingested temperature or humidity message starts a new pipeline run.     *)
(* In SpecRuns both values are present from the first state on, and a      *)
(* message is successfully ingested when its write succeeded and the guard *)
(* of processSensorData was evaluated for it.  The code does not keep      *)
(* this: a message whose value is null is ingested and starts no run.      *)
(***************************************************************************)
C26_EveryIngestionStartsRun ==
    \A h \in HandlerIds : Evaluated(handlers[h]) => RunStarted(handlers[h])

(***************************************************************************)
(* C27.  Pipeline runs are not serialized.  No handler waits for another:  *)
(* while handlers are suspended a further message is dispatched at once,   *)
(* and every suspended handler resumes as soon as its own call settles,    *)
(* whatever the other handlers are doing.  So a second run starts while an *)
(* earlier one is suspended, and the publishes of two runs to one topic    *)
(* occur in either order.                                                  *)
(***************************************************************************)
CanResume(h) ==
    LET pc == handlers[h].pc
    IN  /\ pc = "write" => ENABLED WriteDone(h, TRUE)
        /\ pc = "quote" => ENABLED QuoteDone(h, "a generated quote")
        /\ pc = "pubQuote" => ENABLED QuotePublished(h, FALSE)
        /\ pc = "fetch" => ENABLED FetchDone(h, NoEmails)
        /\ pc = "summarize" => ENABLED SummarizeDone(h, "a generated summary")
        /\ pc = "priority" => ENABLED PriorityDone(h, "normal")
        /\ pc = "pubEmail" => ENABLED EmailPublished(h, FALSE)
        /\ pc = "pubPriority" => ENABLED PriorityPublished(h, FALSE)

C27_RunsNotSerialized ==
    /\ \A h \in HandlerIds : CanResume(h)
    /\ now < MaxMsgs =>
           \A topic \in SensorTopics : ENABLED Dispatch(topic, NumberPayload(1))

\* The run of handler 1 was triggered first: it saw the humidity as it was before
\* handler 2 changed it, and handler 2 saw the temperature of handler 1.  The run
\* of handler 2 has published all three values and ended while the run of
\* handler 1 is still waiting for its quote: every publish of run 1 comes after
\* the publish of run 2 to the same topic, and the last value on each topic is
\* the one of the run triggered earlier.
C27_Witness ==
    /\ handlers[1].evalAt = <<JsNum(2), JsNum(2)>>
    /\ handlers[2].evalAt = <<JsNum(2), JsNum(1)>>
    /\ handlers[1].pc = "quote"
    /\ RunEnded(handlers[2])
    /\ AllTopicsReceived(handlers[2])
    /\ CanResume(1)

(***************************************************************************)
(* C28, as stated.  Within a run the summary call and the priority         *)
(* classification call are made only if the mailbox fetch returned at      *)
(* least one message.                                                      *)
(***************************************************************************)
FetchReturned(r) ==
    \E e \in Events(r) : e.ev = "return" /\ e.name = "fetchUnreadEmails"

C28_TextCallsOnlyWithMessages ==
    \A h \in HandlerIds :
        LET r == handlers[h]
        IN  /\ Called(r, "summarizeEmails") => (FetchReturned(r) /\ r.emails # NoEmails)
            /\ Called(r, "determinePriority") => (FetchReturned(r) /\ r.emails # NoEmails)

(***************************************************************************)
(* C28, amended.  Within a run the summary call is made only if the        *)
(* mailbox fetch returned at least one message.  The priority              *)
(* classification call is made whenever the fetch has returned, with or    *)
(* without messages: when the fetch returns no messages the summary call   *)
(* is not made and the priority classification call is made at once; when  *)
(* it returns messages the summary call is made and the priority call      *)
(* follows it.  Neither call is made before the fetch has returned.        *)
(***************************************************************************)
C28_PriorityCallWithoutMessages ==
    \A h \in HandlerIds :
        LET r == handlers[h]
        IN  /\ Called(r, "summarizeEmails") => (FetchReturned(r) /\ r.emails # NoEmails)
            /\ Called(r, "determinePriority") => FetchReturned(r)
            /\ (FetchReturned(r) /\ r.emails = NoEmails) =>
                   (Called(r, "determinePriority") /\ ~Called(r, "summarizeEmails"))
            /\ (FetchReturned(r) /\ r.emails # NoEmails) =>
                   /\ Called(r, "summarizeEmails")
                   /\ r.pc # "summarize" => Called(r, "determinePriority")

\* the fetch returned no messages, no summary was asked for, the priority
\* classification was asked for and answered, and the run ended
C28_Witness ==
    \E h \in HandlerIds :
        LET r == handlers[h]
        IN  /\ RunEnded(r)
            /\ FetchReturned(r) /\ ~FetchFailed(r)
            /\ r.emails = NoEmails
            /\ ~Called(r, "summarizeEmails")
            /\ PriorityReplyOf(r) = {"warning"}
            /\ ReceivedMsg(r, TopicPriority, "warning")

(***************************************************************************)
(* C29.  Within a single run the publishes are ordered: the quote publish  *)
(* has been issued and has completed successfully before the mailbox is    *)
(* consulted; the email-summary publish, in flight or settled, comes after *)
(* the quote publish has completed; and the priority publish is issued     *)
(* only after the email-summary publish has succeeded.                     *)
(***************************************************************************)
PublishedOkBefore(tr, i, topic) ==
    \E j \in 1..(i - 1) : tr[j].ev = "publish" /\ tr[j].topic = topic /\ tr[j].res = "ok"
RealPublish(e, topic) == e.ev = "publish" /\ e.topic = topic /\ e.msg # SystemErrorMessage

C29_PublishesOrdered ==
    \A h \in HandlerIds :
        LET r == handlers[h]
            tr == r.trace
        IN  /\ \A i \in 1..Len(tr) :
                   /\ (tr[i].ev = "call" /\ tr[i].name \in {"isEmailEnabled", "fetchUnreadEmails"})
                          => PublishedOkBefore(tr, i, TopicQuote)
                   /\ RealPublish(tr[i], TopicEmail) => PublishedOkBefore(tr, i, TopicQuote)
                   /\ RealPublish(tr[i], TopicPriority) => PublishedOkBefore(tr, i, TopicEmail)
                   /\ RealPublish(tr[i], TopicQuote) =>
                          ~\E j \in 1..(i - 1) :
                               tr[j].ev = "publish" /\ tr[j].topic \in {TopicEmail, TopicPriority}
            /\ r.pc = "pubEmail" => Received(r, TopicQuote)
            /\ r.pc = "pubPriority" => (Received(r, TopicQuote) /\ Received(r, TopicEmail))

\* a run that consulted the mailbox and published all three values, in this order
C29_Witness ==
    \E h \in HandlerIds :
        LET tr == handlers[h].trace
        IN  \E i, j, k, l \in 1..Len(tr) :
                /\ i < j /\ j < k /\ k < l
                /\ tr[i] = PubEv(TopicQuote, handlers[h].quote, "ok")
                /\ tr[j] = CallEv("fetchUnreadEmails", <<>>)
                /\ tr[k] = PubEv(TopicEmail, handlers[h].emailSummary, "ok")
                /\ tr[l] = PubEv(TopicPriority, handlers[h].priority, "ok")

(***************************************************************************)
(* C30.  Every string published to the quote topic is non-empty and no     *)
(* longer than the display character budget of 120 characters, whatever    *)
(* the quote collaborator returns.  The code does not keep this: it        *)
(* publishes the trimmed reply as it is.                                   *)
(***************************************************************************)
QuoteBudget == 120

\* the texts of the run the quote topic was or is being sent
QuoteSent(r) ==
    {e.msg : e \in Publishes(r, TopicQuote)} \cup (IF r.pc = "pubQuote" THEN {r.quote} ELSE {})

C30_QuoteWithinBudget ==
    \A h \in HandlerIds :
        \A text \in QuoteSent(handlers[h]) : text # "" /\ TextLength(text) <= QuoteBudget

(***************************************************************************)
(* C33.  The connected flag changes from false to true only on a transport *)
(* connect event, and from true to false only on a transport offline event *)
(* or when the callback of disconnect() fires; the error and reconnect     *)
(* events, an inbound message, and the publish and subscribe calls and     *)
(* their callbacks never change it.                                        *)
(***************************************************************************)
C33_ConnectedFlagChanges ==
    [][ /\ (~isConnected /\ isConnected') => TransportEvent(lastResult', {"connect"})
        /\ (isConnected /\ ~isConnected') =>
               \/ TransportEvent(lastResult', {"offline"})
               \/ /\ DisconnectResolved(lastResult')
                  /\ CopiesIn(EndCall, pending') = CopiesIn(EndCall, pending) - 1
        /\ ( \/ TransportEvent(lastResult', {"error", "reconnect"})
             \/ (lastResult'.op \in {"message", "publish", "subscribe"}
                   /\ lastResult' # lastResult) ) =>
               isConnected' = isConnected ]_vars

\* an error event while connected: the flag is still set and a publish that
\* follows reaches the broker client
C33_Witness ==
    /\ isConnected
    /\ connectPromise = "resolved"
    /\ TransportEvent(lastResult, {"error"})
    /\ ENABLED MqttPublish(TopicQuote)

(***************************************************************************)
(* C39.  When the broker client reports an error for a subscribe call that *)
(* was handed to it while connected, subscribe rejects with that error and *)
(* the topic-to-handler map is exactly what it was: the handler of the     *)
(* call is not registered and an earlier handler of the topic stays.       *)
(***************************************************************************)
C39_FailedSubscribeKeepsMap ==
    [][ \A call \in ClientCalls :
            ( /\ call.op = "subscribe"
              /\ BagIn(call, pending)
              /\ CopiesIn(call, pending') = CopiesIn(call, pending) - 1
              /\ lastResult'.op = "subscribe"
              /\ lastResult'.outcome # "resolved" ) =>
                /\ lastResult'.outcome = "rejected: error"
                /\ topicHandlers' = topicHandlers ]_vars

\* a subscribe has been rejected by the broker client after the temperature
\* topic was registered: that registration is in place and the humidity topic
\* has no handler
C39_Witness ==
    /\ lastResult.op = "subscribe"
    /\ lastResult.outcome = "rejected: error"
    /\ clientCalls >= 2
    /\ topicHandlers[TopicTemperature] = HandleSensorData
    /\ topicHandlers[TopicHumidity] = NoHandler

(***************************************************************************)
(* C35.  Once disconnect() of a handler that has a broker client has       *)
(* resolved, the connected flag stays false ever after, so that no publish *)
(* or subscribe passes the connected guard and reaches the broker client,  *)
(* from whatever state disconnect() was called: connected, or offline with *)
(* the client still reconnecting on its own.  In particular the step that   *)
(* follows the resolution of disconnect() does not set the flag.           *)
(***************************************************************************)
C35_DisconnectedForGood ==
    [][ ( DisconnectResolved(lastResult) /\ mqttClient # "null" ) =>
            ( ~isConnected /\ ~isConnected' ) ]_vars

(***************************************************************************)
(* C34.  After startup has connected, a failure of a subscribe call or a   *)
(* later transport error does not end the process: the process exits with  *)
(* a failure only on a configuration error at startup or when the promise  *)
(* of the initial connect() is rejected.  The code does not do this: a     *)
(* rejected subscribe of initialize() ends the process (index.js 386-389), *)
(* and so does a rejected db.read() of the store (part_001 58-63).         *)
(***************************************************************************)
ExitsWithFailure == ~process.exited /\ process'.exited /\ process'.exitCode = 1

C34_ExitOnlyBeforeConnected ==
    [][ ExitsWithFailure =>
            \/ process.initialize = "notStarted" /\ LoadConfigThrows(process.env)
            \/ process.initialize = "connect" /\ connectPromise = "rejected" ]_vars

(***************************************************************************)
(* C36.  Within one pipeline run the temperature and the humidity passed   *)
(* to the priority classification are the values that were passed to the   *)
(* quote collaborator at the start of that run, also when further sensor   *)
(* messages are ingested while the run is suspended.                       *)
(***************************************************************************)
C36_PriorityArgsAreQuoteArgs ==
    \A h \in HandlerIds :
        \A e \in Events(handlers[h]) :
            (e.ev = "call" /\ e.name = "determinePriority") =>
                e.args \in QuoteArgs(handlers[h])

(***************************************************************************)
(* C37.  Within one pipeline run, once the real quote has been published   *)
(* successfully to the quote topic, the run never afterwards publishes the *)
(* generic error string to the quote topic, whatever fails in the email    *)
(* and priority steps.                                                     *)
(***************************************************************************)
C37_NoErrorAfterRealQuote ==
    \A h \in HandlerIds :
        LET r == handlers[h]
            tr == r.trace
        IN  (\E j \in 1..Len(tr) : RealPublish(tr[j], TopicQuote) /\ tr[j].res = "ok") =>
                /\ r.pc # "pubErr"
                /\ ErrorPublishes(r) = {}

(***************************************************************************)
(* C31.  The timestamp of the latest-values aggregate never decreases:     *)
(* after any sequence of ingested messages, payloads carrying a timestamp  *)
(* of their own and store writes completing in another order included, it  *)
(* is greater than or equal to every value it held before.  (The timestamp *)
(* is null until the first update; NullSensorData holds 0 for it, which no *)
(* reading has.)                                                           *)
(***************************************************************************)
C31_LatestTimestampMonotonic ==
    [][ latestSensorData.timestamp # NullSensorData.timestamp =>
            latestSensorData'.timestamp >= latestSensorData.timestamp ]_vars

(***************************************************************************)
(* C38.  Every reading appended to the store by ingestion has as its kind  *)
(* the last segment of the topic it arrived on, the kind whose latest      *)
(* value the handler updates, and has the timestamp assigned at ingestion  *)
(* unless the payload supplied one; other payload members never change the *)
(* kind of the reading.  (Handler h appends the h-th reading of the log.)  *)
(***************************************************************************)
C38_ReadingKindIsTopicKind ==
    \A h \in HandlerIds :
        handlers[h].pc # "idle" =>
            /\ readings[h].type = handlers[h].sensorType
            /\ readings[h].timestamp = handlers[h].timestamp
            /\ readings[h].timestamp \in {h, 0 - 1}

(***************************************************************************)
(* C32.  No appended reading is lost: every reading whose                  *)
(* storeSensorReading call returned successfully is in the log afterwards  *)
(* (the cap of 1000 is not reached here), also when the append happens     *)
(* while the initial read of the data file has not completed.              *)
(***************************************************************************)
InLog(reading) == \E i \in 1..Len(readings) : readings[i] = reading

C32_NoAppendedReadingLost ==
    ( lastResult.op = "storeSensorReading" /\ lastResult.outcome = "resolved" ) =>
        InLog(NthReading(lastResult.n))

====
